---- MODULE Spec2Model ----
(***************************************************************************)
(* A model of the libvips binding layer of bimg (vips.go).                 *)
(*                                                                         *)
(* Two state machines share this module.                                   *)
(*   Spec      one request travelling through the marshaling layer: a      *)
(*             buffer is decoded (vipsRead), the handle goes through       *)
(*             transform operations and ends in vipsSave; the buffer-level *)
(*             operations (RGBAPixels, ...) are whole requests of their    *)
(*             own.  Every native entry point is an environment step whose *)
(*             status is chosen nondeterministically.                      *)
(*   SpecLife  goroutines calling Initialize and Shutdown, one statement   *)
(*             at a time, after the package's init().                      *)
(***************************************************************************)
EXTENDS Integers, Sequences, FiniteSets, TLC

(***************************************************************************)
(* Bounds of the model.                                                    *)
(***************************************************************************)
\* transform operations applied between vipsRead and vipsSave
MaxOps == 2
\* lifecycle calls (Initialize / Shutdown) started after the package's init()
MaxCalls == 3
\* length of the strings handed to vipsExifShort
MaxLen == 4

(***************************************************************************)
(* State.                                                                  *)
(***************************************************************************)
VARIABLES
    build,      \* what the linked libvips can load and save
    phase,      \* "new" | "returned" | "chain": where the request is
    image,      \* the handle the caller holds (0: nil)
    nops,       \* transform operations applied so far
    unrefs,     \* unrefs[h]: g_object_unref calls made on handle h
    nbufs,      \* nbufs[b]: "live" | "freed", the native byte buffers
    errbuf,     \* the native error buffer (vips_error_buffer)
    calls,      \* native entry points invoked by the last operation, in order
    fails,      \* the non-zero statuses the last operation received
    op,         \* name of the last operation
    held,       \* handles the last operation received or created
    ret,        \* handle the last operation returned (0: nil)
    err,        \* error the last operation returned
    data,       \* byte slice the last operation returned
    info,       \* other facts about the last operation (its options and answers)
    tag,        \* an EXIF tag value and what vipsExifShort makes of it
    m,          \* sync.Mutex m: 0 when free, else the goroutine holding it
    initialized,\* the package's flag
    libStarted, \* whether libvips is started
    inNative,   \* goroutines inside vips_init or vips_shutdown
    pc,         \* pc[g]: the statement goroutine g is at
    ncalls,     \* lifecycle calls started after the package's init()
    loaded,     \* the package's init() has returned
    cur,        \* cur[g]: bookkeeping of g's call in progress
    lastDone,   \* the call of Initialize or Shutdown that returned last
    unguarded,  \* accesses to the flag made without holding m
    cache,      \* libvips settings: cache limits, concurrency, cache tracing
    stopped,    \* vips_shutdown has been invoked since the process started
    osThread    \* goroutines wired to their OS thread (runtime.LockOSThread)

mvars == <<build, phase, image, nops, unrefs, nbufs, errbuf, calls, fails, op,
           held, ret, err, data, info, tag>>
lvars == <<m, initialized, libStarted, inNative, pc, ncalls, loaded, cur,
           lastDone, unguarded, cache, stopped, osThread>>
vars == <<build, phase, image, nops, unrefs, nbufs, errbuf, calls, fails, op,
          held, ret, err, data, info, tag, m, initialized, libStarted, inNative,
          pc, ncalls, loaded, cur, lastDone, unguarded, cache, stopped, osThread>>

(***************************************************************************)
(* Image types (ImageType) and the linked library.                         *)
(***************************************************************************)
UNKNOWN == "UNKNOWN"
ImageTypes == {"JPEG", "WEBP", "PNG", "TIFF", "GIF", "PDF", "SVG", "MAGICK",
               "HEIF", "AVIF", "JP2K", "JXL"}

\* The libvips builds the model runs against: everything, JPEG and PNG
\* only, one without the ImageMagick and HEIF loaders, and one with nothing.
FullBuild ==
    [load |-> ImageTypes \ {"AVIF"}, save |-> ImageTypes \ {"AVIF", "PDF", "SVG", "MAGICK"}]
MinimalBuild == [load |-> {"JPEG", "PNG"}, save |-> {"JPEG", "PNG"}]
PlainBuild ==
    [load |-> {"JPEG", "PNG", "GIF", "WEBP", "TIFF", "SVG"}, save |-> {"JPEG", "PNG", "WEBP"}]
\* a libvips that reports no loader and no saver at all
BareBuild == [load |-> {}, save |-> {}]
Builds == {FullBuild, MinimalBuild, PlainBuild, BareBuild}

\* vips_type_find_bridge(t) != 0
vips_type_find_bridge(b, t) == t \in b.load
\* vips_type_find_save_bridge(t) != 0
vips_type_find_save_bridge(b, t) == t \in b.save

VipsIsTypeSupported(b, t) ==
    IF t = "AVIF" THEN vips_type_find_bridge(b, "HEIF")
    ELSE IF t \in ImageTypes THEN vips_type_find_bridge(b, t)
    ELSE FALSE

VipsIsTypeSupportedSave(b, t) ==
    IF t = "AVIF" THEN vips_type_find_save_bridge(b, "HEIF")
    ELSE IF t \in {"JPEG", "WEBP", "PNG", "TIFF", "HEIF", "GIF", "JP2K", "JXL"}
         THEN vips_type_find_save_bridge(b, t)
    ELSE FALSE

\* type.go: the type is known to the package and libvips can load it
IsTypeSupported(b, t) == t \in ImageTypes /\ VipsIsTypeSupported(b, t)
IsTypeSupportedSave(b, t) == t \in ImageTypes /\ VipsIsTypeSupportedSave(b, t)

(***************************************************************************)
(* Input buffers.  A buffer is its bytes together with what the parts of   *)
(* the program outside vips.go answer about it: IsSVGImage (type.go) and   *)
(* the loader class name vips_foreign_find_load_buffer finds for it.       *)
(***************************************************************************)
Zeros(n) == [i \in 1..n |-> 0]
Sig(prefix) == prefix \o Zeros(12 - Len(prefix))
Buf(bytes, svg, loader) == [bytes |-> bytes, svg |-> svg, loader |-> loader]

NoLoader == <<>>
MagickLoader == <<"VipsForeignLoad", "Magick", "Buffer">>
JpegLoader == <<"VipsForeignLoad", "Jpeg", "Buffer">>

Ftyp(brand) == <<0, 0, 0, 24, 102, 116, 121, 112>> \o brand

SampleBuffers ==
    { Buf(Sig(<<255, 216, 255, 224>>), FALSE, JpegLoader),               \* JPEG
      Buf(<<255, 216, 255>>, FALSE, JpegLoader),                         \* JPEG signature, 3 bytes long
      Buf(<<137, 80, 78, 71, 13, 10, 26, 10>>, FALSE, NoLoader),         \* PNG signature, 8 bytes long
      Buf(<<>>, FALSE, NoLoader),                                        \* empty
      Buf(Sig(<<71, 73, 70, 56>>), FALSE, NoLoader),                     \* GIF
      Buf(Sig(<<137, 80, 78, 71>>), FALSE, NoLoader),                    \* PNG
      Buf(Sig(<<73, 73, 42, 0>>), FALSE, NoLoader),                      \* TIFF II
      Buf(Sig(<<77, 77, 0, 42>>), FALSE, NoLoader),                      \* TIFF MM
      Buf(Sig(<<37, 80, 68, 70>>), FALSE, NoLoader),                     \* PDF
      Buf(<<82, 73, 70, 70, 0, 0, 0, 0, 87, 69, 66, 80>>, FALSE, NoLoader), \* WEBP
      Buf(Sig(<<60, 115, 118, 103>>), TRUE, NoLoader),                   \* SVG
      Buf(Sig(<<66, 77>>), FALSE, MagickLoader),                         \* BMP, an ImageMagick format
      Buf(Ftyp(<<104, 101, 105, 99>>), FALSE, NoLoader),                 \* ftypheic
      Buf(Ftyp(<<109, 105, 102, 49>>), FALSE, NoLoader),                 \* ftypmif1
      Buf(Ftyp(<<109, 115, 102, 49>>), FALSE, NoLoader),                 \* ftypmsf1
      Buf(Ftyp(<<104, 101, 105, 115>>), FALSE, NoLoader),                \* ftypheis
      Buf(Ftyp(<<104, 101, 118, 99>>), FALSE, NoLoader),                 \* ftyphevc
      Buf(Ftyp(<<97, 118, 105, 102>>), FALSE, NoLoader),                 \* ftypavif
      Buf(<<0, 0, 0, 12, 106, 80, 32, 32, 13, 10, 135, 10>>, FALSE, NoLoader), \* JP2K box
      Buf(Sig(<<255, 79, 255, 81>>), FALSE, NoLoader),                   \* JP2K codestream
      Buf(Sig(<<255, 10>>), FALSE, NoLoader),                            \* JXL codestream
      Buf(<<0, 0, 0, 12, 74, 88, 76, 32, 13, 10, 135, 10>>, FALSE, NoLoader), \* JXL box
      Buf(<<71, 73, 70, 56, 0, 0, 0, 0, 87, 69, 66, 80>>, FALSE, NoLoader), \* GIF signature and WEBP tag
      Buf(Sig(<<60, 115, 118, 103>>), TRUE, MagickLoader),               \* SVG that ImageMagick loads too
      Buf(Sig(<<1, 2, 3, 4>>), FALSE, NoLoader),                         \* no known signature
      Buf(Sig(<<1, 2, 3, 4>>), FALSE, JpegLoader) }                      \* none, libvips names a loader

\* buf[i], Go's index
B(buf, i) == buf.bytes[i + 1]
HasPrefix(s, p) == Len(s) >= Len(p) /\ SubSeq(s, 1, Len(p)) = p
HasSuffix(s, p) == Len(s) >= Len(p) /\ SubSeq(s, Len(s) - Len(p) + 1, Len(s)) = p

\* bytes 4..7 are "ftyp" and bytes 8..11 are the brand
IsFtyp(buf, brand) ==
    /\ B(buf, 4) = 102 /\ B(buf, 5) = 116 /\ B(buf, 6) = 121 /\ B(buf, 7) = 112
    /\ B(buf, 8) = brand[1] /\ B(buf, 9) = brand[2]
    /\ B(buf, 10) = brand[3] /\ B(buf, 11) = brand[4]

\* type.go
IsSVGImage(buf) == buf.svg

\* what C.GoString(vips_foreign_find_load_buffer(...)) returns
readImageType(buf) == buf.loader

\* The index, among the signature tests of vipsImageType, of the
\* ImageMagick test: the only one that calls into libvips with the buffer.
MagickRule == 8

\* The signature tests of vipsImageType in their order: the library support
\* each one asks for first, whether the bytes match, and the type returned.
\* Only evaluated on buffers of 12 bytes or more.
SniffRules(b, buf) ==
    << [guard |-> TRUE, type |-> "JPEG",
        match |-> B(buf, 0) = 255 /\ B(buf, 1) = 216 /\ B(buf, 2) = 255],
       [guard |-> IsTypeSupported(b, "GIF"), type |-> "GIF",
        match |-> B(buf, 0) = 71 /\ B(buf, 1) = 73 /\ B(buf, 2) = 70],
       [guard |-> TRUE, type |-> "PNG",
        match |-> B(buf, 0) = 137 /\ B(buf, 1) = 80 /\ B(buf, 2) = 78 /\ B(buf, 3) = 71],
       [guard |-> IsTypeSupported(b, "TIFF"), type |-> "TIFF",
        match |-> \/ B(buf, 0) = 73 /\ B(buf, 1) = 73 /\ B(buf, 2) = 42 /\ B(buf, 3) = 0
                  \/ B(buf, 0) = 77 /\ B(buf, 1) = 77 /\ B(buf, 2) = 0 /\ B(buf, 3) = 42],
       [guard |-> IsTypeSupported(b, "PDF"), type |-> "PDF",
        match |-> B(buf, 0) = 37 /\ B(buf, 1) = 80 /\ B(buf, 2) = 68 /\ B(buf, 3) = 70],
       [guard |-> IsTypeSupported(b, "WEBP"), type |-> "WEBP",
        match |-> B(buf, 8) = 87 /\ B(buf, 9) = 69 /\ B(buf, 10) = 66 /\ B(buf, 11) = 80],
       [guard |-> IsTypeSupported(b, "SVG"), type |-> "SVG",
        match |-> IsSVGImage(buf)],
       [guard |-> IsTypeSupported(b, "MAGICK"), type |-> "MAGICK",
        match |-> HasSuffix(readImageType(buf), <<"Magick", "Buffer">>)],
       [guard |-> IsTypeSupported(b, "HEIF"), type |-> "HEIF",
        match |-> IsFtyp(buf, <<104, 101, 105, 99>>)],
       [guard |-> IsTypeSupported(b, "HEIF"), type |-> "HEIF",
        match |-> IsFtyp(buf, <<109, 105, 102, 49>>)],
       [guard |-> IsTypeSupported(b, "HEIF"), type |-> "HEIF",
        match |-> IsFtyp(buf, <<109, 115, 102, 49>>)],
       [guard |-> IsTypeSupported(b, "HEIF"), type |-> "HEIF",
        match |-> IsFtyp(buf, <<104, 101, 105, 115>>)],
       [guard |-> IsTypeSupported(b, "HEIF"), type |-> "HEIF",
        match |-> IsFtyp(buf, <<104, 101, 118, 99>>)],
       [guard |-> IsTypeSupported(b, "HEIF"), type |-> "AVIF",
        match |-> IsFtyp(buf, <<97, 118, 105, 102>>)],
       [guard |-> IsTypeSupported(b, "JP2K"), type |-> "JP2K",
        match |-> \/ HasPrefix(buf.bytes, <<0, 0, 0, 12, 106, 80, 32, 32, 13, 10, 135, 10>>)
                  \/ HasPrefix(buf.bytes, <<255, 79, 255, 81>>)],
       [guard |-> IsTypeSupported(b, "JXL"), type |-> "JXL",
        match |-> \/ HasPrefix(buf.bytes, <<255, 10>>)
                  \/ HasPrefix(buf.bytes, <<0, 0, 0, 12, 74, 88, 76, 32, 13, 10, 135, 10>>)] >>

\* the signature tests without the test of the library's support
SniffHits_noGuard(b, buf) ==
    {i \in 1..Len(SniffRules(b, buf)) : SniffRules(b, buf)[i].match}

\* the tests that return: the support is there and the bytes match
SniffHits(b, buf) ==
    {i \in 1..Len(SniffRules(b, buf)) :
        SniffRules(b, buf)[i].guard /\ SniffRules(b, buf)[i].match}

Least(S) == CHOOSE i \in S : \A j \in S : i <= j

\* vipsImageType returning the type of the last test that matches
vipsImageType_lastMatch(b, buf) ==
    IF Len(buf.bytes) < 12 THEN UNKNOWN
    ELSE IF SniffHits(b, buf) = {} THEN UNKNOWN
    ELSE SniffRules(b, buf)[CHOOSE i \in SniffHits(b, buf) :
                                \A j \in SniffHits(b, buf) : j <= i].type

vipsImageType(b, buf) ==
    IF Len(buf.bytes) < 12 THEN UNKNOWN
    ELSE IF SniffHits(b, buf) = {} THEN UNKNOWN
    ELSE SniffRules(b, buf)[Least(SniffHits(b, buf))].type

\* vipsImageType reaches readImageType, and with it
\* vips_foreign_find_load_buffer: no earlier test returned and MAGICK is supported
SniffCallsLoader(b, buf) ==
    /\ Len(buf.bytes) >= 12
    /\ \A i \in SniffHits(b, buf) : i >= MagickRule
    /\ IsTypeSupported(b, "MAGICK")

(***************************************************************************)
(* The native side as this layer sees it.  A world w records the           *)
(* g_object_unref calls made on each handle, the native byte buffers, the  *)
(* error buffer, and the entry points the operation in progress invoked.   *)
(* Operators take the world they act on as a parameter and return the      *)
(* world they leave; the statements of a function compose inside out.      *)
(***************************************************************************)
\* the status a native entry point returns: 0, or non-zero on failure
Status == {0, -1}

World == [unrefs |-> unrefs, nbufs |-> nbufs, errbuf |-> errbuf,
          calls |-> <<>>, fails |-> <<>>]

\* an entry point f invoked on handle h (0: none); live: h was not yet
\* released by this layer when it was passed
Event(w, f, h) ==
    [f |-> f, h |-> h, live |-> IF h = 0 THEN TRUE ELSE w.unrefs[h] = 0]

Log(w, f, h) == [w EXCEPT !.calls = Append(@, Event(w, f, h))]

\* the status of entry point f comes back: a failure leaves its text in the
\* error buffer; at: the position in calls of the call that failed
Returned(w, f, st) ==
    IF st = 0 THEN w
    ELSE [w EXCEPT !.errbuf = Append(@, f),
                   !.fails = Append(@, [f |-> f, text |-> Append(w.errbuf, f),
                                        at |-> Len(w.calls)])]

\* an entry point that returns a status
Native(w, f, h, st) == Returned(Log(w, f, h), f, st)

NewHandle(w) == [w EXCEPT !.unrefs = Append(@, 0)]
NewHandleIf(w, st) == IF st = 0 THEN NewHandle(w) ELSE w
NewBufIf(w, st) == IF st = 0 THEN [w EXCEPT !.nbufs = Append(@, "live")] ELSE w

\* an entry point with an out parameter: success creates a handle
NativeOut(w, f, h, st) == NewHandleIf(Native(w, f, h, st), st)
\* the handle the last NativeOut created (nil after a failure)
Out(w, st) == IF st = 0 THEN Len(w.unrefs) ELSE 0

\* an entry point that allocates a native byte buffer on success
NativeBuf(w, f, h, st) == NewBufIf(Native(w, f, h, st), st)
OutBuf(w, st) == IF st = 0 THEN Len(w.nbufs) ELSE 0

g_object_unref(w, h) ==
    [Log(w, "g_object_unref", h) EXCEPT !.unrefs[h] = @ + 1]

\* g_free / free of native buffer b (0: NULL, which frees nothing)
g_free(w, f, b) ==
    IF b = 0 THEN Log(w, f, 0)
    ELSE [Log(w, f, 0) EXCEPT !.nbufs[b] = "freed"]

vips_error_clear(w) == [Log(w, "vips_error_clear", 0) EXCEPT !.errbuf = <<>>]
vips_thread_shutdown(w) == Log(w, "vips_thread_shutdown", 0)

(***************************************************************************)
(* Errors and byte slices.                                                 *)
(***************************************************************************)
NilErr == [nil |-> TRUE, by |-> "", msg |-> <<>>]
\* catchVipsError returning a fixed message instead of the buffer's text
NativeErr_fixedText(text) ==
    [nil |-> FALSE, by |-> "catchVipsError", msg |-> <<"native operation failed">>]

\* errors.New(s) of catchVipsError: s is the error buffer's text
NativeErr(text) == [nil |-> FALSE, by |-> "catchVipsError", msg |-> text]
\* an error whose message the Go layer composes
GoErr(text) == [nil |-> FALSE, by |-> "go", msg |-> <<text>>]

NoData == [mem |-> "none", buf |-> 0]
\* C.GoBytes: a copy in managed memory of native buffer b
GoBytes(b) == [mem |-> "go", buf |-> b]
\* a slice header laid over native buffer b
NativeSlice(b) == [mem |-> "native", buf |-> b]

\* what an operation hands back: the world, the handle, the error, the bytes
Res(w, out, e) == [w |-> w, out |-> out, err |-> e, data |-> NoData, type |-> UNKNOWN]
ResData(w, d, e) == [w |-> w, out |-> 0, err |-> e, data |-> d, type |-> UNKNOWN]

\* catchVipsError with the buffer cleared before it is read
catchVipsError_clearFirst(w) ==
    [w |-> vips_thread_shutdown(Log(vips_error_clear(w), "vips_error_buffer", 0)),
     err |-> NativeErr(<<>>)]

\* s := GoString(vips_error_buffer()); vips_error_clear();
\* vips_thread_shutdown(); return errors.New(s)
catchVipsError(w) ==
    [w |-> vips_thread_shutdown(vips_error_clear(Log(w, "vips_error_buffer", 0))),
     err |-> NativeErr(w.errbuf)]

\* return nil, catchVipsError(): c is what catchVipsError returned
Fail(c) == Res(c.w, 0, c.err)
\* the same in a function that deferred g_object_unref(img)
FailUnref(c, img) == Res(g_object_unref(c.w, img), 0, c.err)
FailData(c) == ResData(c.w, NoData, c.err)

(***************************************************************************)
(* Decoding.                                                               *)
(***************************************************************************)
\* vipsReadCommon without the early return on UNKNOWN
ReadTyped_noCheck(w, imageType, st) ==
    IF st # 0
    THEN Fail(catchVipsError(NativeOut(w, "vips_init_image", 0, st)))
    ELSE [Res(NativeOut(w, "vips_init_image", 0, st), Len(w.unrefs) + 1, NilErr)
            EXCEPT !.type = imageType]

\* vipsReadCommon once the type is known
ReadTyped(w, imageType, st) ==
    IF imageType = UNKNOWN
    THEN Res(w, 0, GoErr("Unsupported image format"))
    ELSE IF st # 0
    THEN Fail(catchVipsError(NativeOut(w, "vips_init_image", 0, st)))
    ELSE [Res(NativeOut(w, "vips_init_image", 0, st), Len(w.unrefs) + 1, NilErr)
            EXCEPT !.type = imageType]

\* the native call vipsImageType makes on its way, if it gets that far
Sniffed(w, b, buf) ==
    IF SniffCallsLoader(b, buf)
    THEN Log(w, "vips_foreign_find_load_buffer", 0) ELSE w

vipsReadCommon(w, b, buf, frames, st) ==
    ReadTyped(Sniffed(w, b, buf), vipsImageType(b, buf), st)

vipsReadAll(w, b, buf, st) == vipsReadCommon(w, b, buf, -1, st)
vipsRead(w, b, buf, st) == vipsReadCommon(w, b, buf, 1, st)

(***************************************************************************)
(* Transform operations.  Most share one shape: the input is released by   *)
(* a deferred g_object_unref, one entry point is invoked, and a non-zero   *)
(* status returns catchVipsError().                                        *)
(***************************************************************************)
\* if err != 0 { return nil, catchVipsError() }; return out, nil
\* with g_object_unref(img) deferred; w is the world the entry point left
UnrefReturn(w, img, st) ==
    IF st # 0 THEN FailUnref(catchVipsError(w), img)
    ELSE Res(g_object_unref(w, img), Out(w, st), NilErr)

\* the same in a function that does not release its input
KeepReturn(w, st) ==
    IF st # 0 THEN Fail(catchVipsError(w)) ELSE Res(w, Out(w, st), NilErr)

\* a transform that invokes its entry point again after a failure
DeferUnrefTransform_retry(w, img, entry, st) ==
    IF st # 0
    THEN UnrefReturn(NativeOut(NativeOut(w, entry, img, st), entry, img, st), img, st)
    ELSE UnrefReturn(NativeOut(w, entry, img, st), img, st)

\* defer g_object_unref(image); err := entry(image, &out); ...
DeferUnrefTransform(w, img, entry, st) ==
    UnrefReturn(NativeOut(w, entry, img, st), img, st)

vipsRotate(w, img, bg, st) ==
    DeferUnrefTransform(IF bg THEN Log(w, "vips_array_double_new", 0) ELSE w,
                        img, "vips_rotate_bridge", st)
vipsAutoRotate(w, img, st) == DeferUnrefTransform(w, img, "vips_autorot_bridge", st)
vipsTransformICC(w, img, st) ==
    DeferUnrefTransform(w, img, "vips_icc_transform_with_default_bridge", st)
vipsFlip(w, img, st) == DeferUnrefTransform(w, img, "vips_flip_bridge", st)
vipsZoom(w, img, st) == DeferUnrefTransform(w, img, "vips_zoom_bridge", st)
\* a run-time panic: &buf[0] on an empty slice
IndexPanicErr == [nil |-> FALSE, by |-> "panic", msg |-> <<"index out of range">>]

\* ptr = unsafe.Pointer(&buf[0]); defer g_object_unref(input);
\* err := entry(ptr, len(buf), &image, shrink): the loader is handed the
\* buffer, not the input.  On an empty buf the first statement panics before
\* the release is deferred: nothing is invoked, released or returned
ShrinkLoad(w, buf, img, entry, st) ==
    IF Len(buf.bytes) = 0 THEN Res(w, 0, IndexPanicErr)
    ELSE UnrefReturn(NativeOut(w, entry, 0, st), img, st)

vipsShrinkJpeg(w, buf, img, st) ==
    ShrinkLoad(w, buf, img, "vips_jpegload_buffer_shrink", st)
vipsShrinkWebp(w, buf, img, st) ==
    ShrinkLoad(w, buf, img, "vips_webpload_buffer_shrink", st)
vipsReduce(w, img, st) == DeferUnrefTransform(w, img, "vips_reduce_bridge", st)
vipsGaussianBlur(w, img, st) == DeferUnrefTransform(w, img, "vips_gaussblur_bridge", st)
vipsSharpen(w, img, st) == DeferUnrefTransform(w, img, "vips_sharpen_bridge", st)
vipsGamma(w, img, st) == DeferUnrefTransform(w, img, "vips_gamma_bridge", st)
vipsBrightness(w, img, st) == DeferUnrefTransform(w, img, "vips_brightness_bridge", st)
vipsContrast(w, img, st) == DeferUnrefTransform(w, img, "vips_contrast_bridge", st)

\* input.Xsize == 1: shrinkv; input.Ysize == 1: shrinkh; else shrink
vipsShrink(w, img, xsize, ysize, st) ==
    IF xsize = 1
    THEN DeferUnrefTransform(Log(w, "Xsize", img), img, "vips_shrinkv_bridge", st)
    ELSE DeferUnrefTransform(Log(Log(w, "Xsize", img), "Ysize", img), img,
                             IF ysize = 1 THEN "vips_shrinkh_bridge"
                             ELSE "vips_shrink_bridge", st)

\* width > maxSize || height > maxSize is decided before any native call
vipsExtract(w, img, tooBig, st) ==
    IF tooBig THEN Res(g_object_unref(w, img), 0, GoErr("Maximum image size exceeded"))
    ELSE DeferUnrefTransform(w, img, "vips_extract_area_bridge", st)

vipsSmartCrop(w, img, tooBig, st) ==
    IF tooBig THEN Res(g_object_unref(w, img), 0, GoErr("Maximum image size exceeded"))
    ELSE DeferUnrefTransform(w, img, "vips_smartcrop_bridge", st)

\* returns the trim box, no handle
vipsTrim(w, img, st) ==
    IF st # 0
    THEN FailUnref(catchVipsError(Native(w, "vips_find_trim_bridge", img, st)), img)
    ELSE Res(g_object_unref(Native(w, "vips_find_trim_bridge", img, st), img), 0, NilErr)

\* Extend values: 5 is ExtendBackground, anything above is taken as 5
ExtendBackground == 5

\* the early return comes before the defer statement
vipsEmbed(w, input, extend, bg, st) ==
    IF (IF extend > 5 THEN ExtendBackground ELSE extend) = ExtendBackground /\ ~bg
    THEN Res(w, 0, GoErr("cannot use ExtendBackground without specifying a background"))
    ELSE DeferUnrefTransform(w, input, "vips_embed_bridge", st)

\* vipsAffine after vips_affine_interpolator returned: the deferred calls
\* release the interpolator, then the input
AffineReturn(w, interpolator, st) ==
    IF st # 0
    THEN FailUnref(catchVipsError(w), interpolator)
    ELSE Res(g_object_unref(w, interpolator), Out(w, st), NilErr)

AffineUnrefInput(r, input) == [r EXCEPT !.w = g_object_unref(@, input)]

\* the interpolator is a native object of its own, released with the input
vipsAffine(w, input, st) ==
    AffineUnrefInput(
        AffineReturn(NativeOut(NewHandle(Log(w, "vips_interpolate_new", 0)),
                               "vips_affine_interpolator", input, st),
                     Len(w.unrefs) + 1, st),
        input)

\* no g_object_unref in vipsWatermark
vipsWatermark(w, img, st) == KeepReturn(NativeOut(w, "vips_watermark", img, st), st)

\* vipsDrawWatermark once the watermark is decoded (rd: what vipsRead returned)
DrawWatermarkOn(rd, img, st) ==
    IF ~rd.err.nil THEN Res(rd.w, 0, rd.err)
    ELSE KeepReturn(NativeOut(Log(rd.w, "vips_watermark_image:sub", rd.out),
                              "vips_watermark_image", img, st), st)

\* decodes the watermark buffer, then composes; no g_object_unref
vipsDrawWatermark(w, b, img, buf, stRead, st) ==
    DrawWatermarkOn(vipsRead(w, b, buf, stRead), img, st)

vipsHasAlpha(w, img) == Log(w, "has_alpha_channel", img)
vipsHasProfile(w, img) == Log(w, "has_profile_embed", img)
vipsColourspaceIsSupported(w, img) == Log(w, "vips_colourspace_issupported_bridge", img)
vipsInterpretation(w, img) == Log(w, "vips_image_guess_interpretation_bridge", img)

\* if err != 0 { return nil, catchVipsError() }
\* g_object_unref(image); return outImage, nil
UnrefOnSuccess(w, img, st) ==
    IF st # 0 THEN Fail(catchVipsError(w))
    ELSE Res(g_object_unref(w, img), Out(w, st), NilErr)

vipsFlattenBackground(w, img, bg, hasAlpha, st) ==
    IF ~bg THEN Res(w, 0, GoErr("cannot flatten without background"))
    ELSE IF hasAlpha
    THEN UnrefOnSuccess(
             NativeOut(vipsHasAlpha(w, img), "vips_flatten_background_bridge", img, st),
             img, st)
    ELSE Res(vipsHasAlpha(w, img), img, NilErr)

\* the options of vipsColorspace the control flow reads: NoProfile, and
\* whether OutputICC and InputICC are non-empty
ColorspaceOptions ==
    [NoProfile : BOOLEAN, OutputICC : BOOLEAN, InputICC : BOOLEAN]

\* the second half of vipsColorspace: the ICC transforms, on the image the
\* colourspace step left
ColorspaceICC(w, img, o, hasProfile, st2) ==
    IF o.OutputICC /\ o.InputICC
    THEN UnrefOnSuccess(
             NativeOut(w, "vips_icc_transform_with_default_bridge", img, st2), img, st2)
    ELSE IF o.OutputICC
    THEN IF hasProfile
         THEN UnrefOnSuccess(
                  NativeOut(vipsHasProfile(w, img), "vips_icc_transform_bridge", img, st2),
                  img, st2)
         ELSE Res(vipsHasProfile(w, img), img, NilErr)
    ELSE Res(w, img, NilErr)

\* vips_colourspace_bridge returned in world w: on success the input is
\* released and the converted image goes on
ColorspaceConverted(w, img, o, hasProfile, st1, st2) ==
    IF st1 # 0 THEN Fail(catchVipsError(w))
    ELSE ColorspaceICC(g_object_unref(w, img), Out(w, st1), o, hasProfile, st2)

\* remove_profile if asked, then vipsColourspaceIsSupported
ColorspaceStart(w, img, o) ==
    vipsColourspaceIsSupported(
        IF o.NoProfile THEN Log(w, "remove_profile", img) ELSE w, img)

vipsColorspace(w, img, o, supported, hasProfile, st1, st2) ==
    IF supported
    THEN ColorspaceConverted(
             NativeOut(ColorspaceStart(w, img, o), "vips_colourspace_bridge", img, st1),
             img, o, hasProfile, st1, st2)
    ELSE ColorspaceICC(ColorspaceStart(w, img, o), img, o, hasProfile, st2)

(***************************************************************************)
(* Metadata.                                                               *)
(***************************************************************************)
\* vips_image_get_blob, then a copy of the blob
vipsGetMetadataRaw(w, img, name, st) ==
    IF st # 0
    THEN FailData(catchVipsError(Native(w, "vips_image_get_blob:" \o name, img, st)))
    ELSE ResData(Log(Native(w, "vips_image_get_blob:" \o name, img, st), "GoBytes", 0),
                 GoBytes(0), NilErr)

vipsSetMetadataRaw(w, img, name) == Log(w, "vips_image_set_blob_copy:" \o name, img)
vips_image_remove(w, img, name) == Log(w, "vips_image_remove:" \o name, img)

\* What the XMP blob of an image holds decides the path of stripMetadataXMP:
\*   absent       vips_image_get_blob fails
\*   empty        the blob has no bytes
\*   unparsable   xmp.Read fails
\*   nocopyright  no node is left after filtering
\*   unmarshal    xmp.Marshal fails
\*   copyright    copyright nodes are written back
XMPKinds == {"absent", "empty", "unparsable", "nocopyright", "unmarshal", "copyright"}
\* the same for the IPTC blob (iptc.ParsePS3, no marshal error)
IPTCKinds == {"absent", "empty", "unparsable", "nocopyright", "copyright"}

Found(w, found, e) == [w |-> w, found |-> found, err |-> e]

\* stripMetadataXMP after vipsGetMetadataRaw returned g
XMPFiltered(g, img, kind) ==
    IF ~g.err.nil THEN Found(g.w, FALSE, g.err)
    ELSE IF kind \in {"empty", "unparsable"} THEN Found(g.w, FALSE, NilErr)
    ELSE IF kind \in {"nocopyright", "unmarshal"}
    THEN Found(vips_image_remove(g.w, img, "xmp-data"), FALSE, NilErr)
    ELSE Found(vipsSetMetadataRaw(g.w, img, "xmp-data"), TRUE, NilErr)

stripMetadataXMP(w, img, kind) ==
    XMPFiltered(vipsGetMetadataRaw(w, img, "xmp-data", IF kind = "absent" THEN -1 ELSE 0),
                img, kind)

\* stripMetadataIPTC after vipsGetMetadataRaw returned g
IPTCFiltered(g, img, kind) ==
    IF ~g.err.nil THEN Found(g.w, FALSE, g.err)
    ELSE IF kind = "empty" THEN Found(g.w, FALSE, NilErr)
    ELSE IF kind \in {"unparsable", "nocopyright"}
    THEN Found(vips_image_remove(g.w, img, "iptc-data"), FALSE, NilErr)
    ELSE Found(vipsSetMetadataRaw(g.w, img, "iptc-data"), TRUE, NilErr)

stripMetadataIPTC(w, img, kind) ==
    IPTCFiltered(vipsGetMetadataRaw(w, img, "iptc-data", IF kind = "absent" THEN -1 ELSE 0),
                 img, kind)

\* return foundExif == 1 || foundXMP || foundIPTC
KeepResult(foundExif, foundXMP, i) ==
    [w |-> i.w, found |-> foundExif = 1 \/ foundXMP \/ i.found]

\* foundIPTC, _ := stripMetadataIPTC(image): x is what stripMetadataXMP
\* returned, and its error is dropped like the next one
KeepAfterXMP(foundExif, x, img, iptc) ==
    KeepResult(foundExif, x.found, stripMetadataIPTC(x.w, img, iptc))

keepCopyrightMetadata(w, img, foundExif, xmp, iptc) ==
    KeepAfterXMP(foundExif,
                 stripMetadataXMP(Log(w, "keep_exif_copyright", img), img, xmp),
                 img, iptc)

(***************************************************************************)
(* Encoding.                                                               *)
(***************************************************************************)
\* the options of vipsSave the control flow reads; Type UNKNOWN is 0
SaveOptions ==
    [Type : {UNKNOWN} \cup ImageTypes, StripMetadata : BOOLEAN,
     KeepCopyrightMetadata : BOOLEAN, StripEXIFOrientation : BOOLEAN]

boolToInt(b) == IF b THEN 1 ELSE 0

\* the switch of vipsSave without the AVIF case
SaveEntry_noAvifCase(t) ==
    CASE t = "WEBP" -> "vips_webpsave_bridge"
      [] t = "PNG" -> "vips_pngsave_bridge"
      [] t = "TIFF" -> "vips_tiffsave_bridge"
      [] t \in {"HEIF", "AVIF"} -> "vips_heifsave_bridge"
      [] t = "GIF" -> "vips_gifsave_bridge"
      [] t = "JP2K" -> "vips_jp2ksave_bridge"
      [] t = "JXL" -> "vips_jxlsave_bridge"
      [] OTHER -> "vips_jpegsave_bridge"

\* the switch of vipsSave
SaveEntry(t) ==
    CASE t = "WEBP" -> "vips_webpsave_bridge"
      [] t = "PNG" -> "vips_pngsave_bridge"
      [] t = "TIFF" -> "vips_tiffsave_bridge"
      [] t = "HEIF" -> "vips_heifsave_bridge"
      [] t = "AVIF" -> "vips_avifsave_bridge"
      [] t = "GIF" -> "vips_gifsave_bridge"
      [] t = "JP2K" -> "vips_jp2ksave_bridge"
      [] t = "JXL" -> "vips_jxlsave_bridge"
      [] OTHER -> "vips_jpegsave_bridge"

\* if o.StripMetadata && o.KeepCopyrightMetadata { found := keepCopyrightMetadata(image) }
SaveKeep(w, img, o, foundExif, xmp, iptc) ==
    IF o.StripMetadata /\ o.KeepCopyrightMetadata
    THEN keepCopyrightMetadata(w, img, foundExif, xmp, iptc)
    ELSE [w |-> w, found |-> FALSE]

\* the save entry points that take the strip flag: all but
\* vips_tiffsave_bridge(image, &ptr, &length)
SaveTakesStrip(t) == t # "TIFF"

\* vipsSave without strip = 0 when copyright data was found
SaveStrip_noKeep(o, k) == boolToInt(o.StripMetadata)

\* strip := boolToInt(o.StripMetadata); if found { strip = 0 }
SaveStrip(o, k) ==
    IF o.StripMetadata /\ o.KeepCopyrightMetadata /\ k.found THEN 0
    ELSE boolToInt(o.StripMetadata)

\* the save entry point returned in world w: copy the bytes out, free the
\* native buffer, clear the error buffer; the deferred unref comes last
SaveEncoded(w, img, st) ==
    IF st # 0 THEN FailUnref(catchVipsError(w), img)
    ELSE ResData(g_object_unref(
                     vips_error_clear(g_free(Log(w, "GoBytes", 0), "g_free", OutBuf(w, st))),
                     img),
                 GoBytes(OutBuf(w, st)), NilErr)

\* the result of vipsSave with the strip flag it computed and whether
\* copyright data was found
SaveResult(r, strip, found) == r @@ [strip |-> strip, found |-> found]

\* vipsSave from the type check on; k is what the metadata step left
SaveEncode(k, b, img, o, st) ==
    SaveResult(
        IF o.Type # UNKNOWN /\ ~IsTypeSupportedSave(b, o.Type)
        THEN Res(g_object_unref(k.w, img), 0, GoErr("VIPS cannot save to"))
        ELSE SaveEncoded(NativeBuf(k.w, SaveEntry(o.Type), img, st), img, st),
        SaveStrip(o, k), k.found)

vipsSave(w, b, img, o, foundExif, xmp, iptc, st) ==
    SaveEncode(
        SaveKeep(IF o.StripEXIFOrientation
                 THEN vips_image_remove(w, img, "orientation") ELSE w,
                 img, o, foundExif, xmp, iptc),
        b, img, o, st)

\* getImageBuffer after vips_jpegsave_bridge returned: the deferred
\* vips_error_clear and g_free run after the copy of the return statement
ImageBufferReturn(w, st) ==
    IF st # 0 THEN FailData(catchVipsError(w))
    ELSE ResData(g_free(vips_error_clear(Log(w, "GoBytes", 0)), "g_free", OutBuf(w, st)),
                 GoBytes(OutBuf(w, st)), NilErr)

\* borrows the image
getImageBuffer(w, img, st) ==
    ImageBufferReturn(NativeBuf(w, "vips_jpegsave_bridge", img, st), st)

(***************************************************************************)
(* Operations on a buffer: decode, ask, release.                           *)
(***************************************************************************)
\* the deferred calls of RGBAPixels, last registered first: free(out) with
\* the out of the defer statement, which is NULL; g_object_unref(image);
\* vips_thread_shutdown()
PixelsDeferred(r, img) ==
    [r EXCEPT !.w = vips_thread_shutdown(g_object_unref(g_free(@, "free", 0), img))]

\* length := w * h * 4
PixelsLength(width, height) == width * height * 4
\* the length of the array type the pixels are viewed through: 1 << 28
ArrayLen == 268435456
\* a run-time panic: slice bounds out of range
PanicErr == [nil |-> FALSE, by |-> "panic", msg |-> <<"slice bounds out of range">>]

\* (*[1 << 28]uint8)(unsafe.Pointer(out))[:length:length]: a slice header
\* laid over the native pixels; the expression panics when length is more
\* than the array holds
PixelsSlice(w, b, length) ==
    IF length > ArrayLen THEN ResData(w, NoData, PanicErr)
    ELSE ResData(w, NativeSlice(b), NilErr)

\* vips_get_rgba_pixels returned in world w; the deferred calls run on
\* every way out, a panic included
PixelsReturn(w, img, st, length) ==
    IF st # 0 THEN PixelsDeferred(FailData(catchVipsError(w)), img)
    ELSE PixelsDeferred(PixelsSlice(w, OutBuf(w, st), length), img)

\* RGBAPixels after vipsReadAll returned rd
PixelsOf(rd, st, width, height) ==
    IF ~rd.err.nil THEN ResData(vips_thread_shutdown(rd.w), NoData, rd.err)
    ELSE PixelsReturn(
             NativeBuf(Log(Log(rd.w, "Xsize", rd.out), "Ysize", rd.out),
                       "vips_get_rgba_pixels", rd.out, st),
             rd.out, st, PixelsLength(width, height))

\* width, height: the size of the image buf decodes to
RGBAPixels(w, b, buf, stRead, st, width, height) ==
    PixelsOf(vipsReadAll(w, b, buf, stRead), st, width, height)

\* releases the image, then asks libvips about it
IsSupportedOf(rd) ==
    IF ~rd.err.nil THEN Res(rd.w, 0, rd.err)
    ELSE Res(vipsColourspaceIsSupported(g_object_unref(rd.w, rd.out), rd.out), 0, NilErr)

vipsColourspaceIsSupportedBuffer(w, b, buf, stRead) ==
    IsSupportedOf(vipsRead(w, b, buf, stRead))

\* asks, then releases
InterpretationOf(rd) ==
    IF ~rd.err.nil THEN Res(rd.w, 0, rd.err)
    ELSE Res(g_object_unref(vipsInterpretation(rd.w, rd.out), rd.out), 0, NilErr)

vipsInterpretationBuffer(w, b, buf, stRead) ==
    InterpretationOf(vipsRead(w, b, buf, stRead))

(***************************************************************************)
(* The request machine.  Each action is one operation of vips.go, run from *)
(* entry to return on inputs and native answers drawn from small sets.     *)
(* The caller keeps the handle an operation returns and hands it to the    *)
(* next one; it stops at the first error.                                  *)
(***************************************************************************)
NoInfo == [none |-> TRUE]

\* the handles created while w became w2
Created(w, w2) == (Len(w.unrefs) + 1) .. Len(w2.unrefs)

\* an operation returned r: name it, record what it held (owned: the handles
\* it received as their owner) and what the caller holds now
Return(name, r, owned, inf) ==
    /\ unrefs' = r.w.unrefs
    /\ nbufs' = r.w.nbufs
    /\ errbuf' = r.w.errbuf
    /\ calls' = r.w.calls
    /\ fails' = r.w.fails
    /\ op' = name
    /\ held' = owned \cup Created(World, r.w)
    /\ ret' = r.out
    /\ err' = r.err
    /\ data' = r.data
    /\ info' = inf
    /\ phase' = "returned"
    /\ UNCHANGED <<build, tag, lvars>>

\* a transform consumed the caller's image and returned r.out
Transformed(name, r) ==
    /\ Return(name, r, {image}, NoInfo)
    /\ image' = IF r.err.nil THEN r.out ELSE 0
    /\ nops' = nops + 1

CanTransform == phase = "chain" /\ image # 0 /\ nops < MaxOps

\* vipsRead or vipsReadAll returned r for buf
Decoded(name, r, buf) ==
    /\ Return(name, r, {}, [buf |-> buf, type |-> r.type])
    /\ image' = r.out
    /\ nops' = nops

Read ==
    /\ phase = "new"
    /\ \E buf \in SampleBuffers, frames \in {1, -1}, st \in Status :
         Decoded(IF frames = 1 THEN "vipsRead" ELSE "vipsReadAll",
                 vipsReadCommon(World, build, buf, frames, st), buf)

\* the caller takes the result and goes on with the handle it now holds
Continue ==
    /\ phase = "returned" /\ image # 0 /\ err.nil
    /\ phase' = "chain"
    /\ calls' = <<>> /\ fails' = <<>> /\ op' = "" /\ held' = {} /\ ret' = 0
    /\ data' = NoData /\ info' = NoInfo
    /\ UNCHANGED <<build, image, nops, unrefs, nbufs, errbuf, err, tag, lvars>>

Rotate ==
    /\ CanTransform
    /\ \E bg \in BOOLEAN, st \in Status :
         Transformed("vipsRotate", vipsRotate(World, image, bg, st))
AutoRotate ==
    /\ CanTransform
    /\ \E st \in Status : Transformed("vipsAutoRotate", vipsAutoRotate(World, image, st))
TransformICC ==
    /\ CanTransform
    /\ \E st \in Status : Transformed("vipsTransformICC", vipsTransformICC(World, image, st))
Flip ==
    /\ CanTransform
    /\ \E st \in Status : Transformed("vipsFlip", vipsFlip(World, image, st))
Zoom ==
    /\ CanTransform
    /\ \E st \in Status : Transformed("vipsZoom", vipsZoom(World, image, st))
ShrinkJpeg ==
    /\ CanTransform
    /\ \E buf \in SampleBuffers, st \in Status :
         Transformed("vipsShrinkJpeg", vipsShrinkJpeg(World, buf, image, st))
ShrinkWebp ==
    /\ CanTransform
    /\ \E buf \in SampleBuffers, st \in Status :
         Transformed("vipsShrinkWebp", vipsShrinkWebp(World, buf, image, st))
Shrink ==
    /\ CanTransform
    /\ \E xsize \in {1, 2}, ysize \in {1, 2}, st \in Status :
         Transformed("vipsShrink", vipsShrink(World, image, xsize, ysize, st))
Reduce ==
    /\ CanTransform
    /\ \E st \in Status : Transformed("vipsReduce", vipsReduce(World, image, st))
GaussianBlur ==
    /\ CanTransform
    /\ \E st \in Status : Transformed("vipsGaussianBlur", vipsGaussianBlur(World, image, st))
Sharpen ==
    /\ CanTransform
    /\ \E st \in Status : Transformed("vipsSharpen", vipsSharpen(World, image, st))
Gamma ==
    /\ CanTransform
    /\ \E st \in Status : Transformed("vipsGamma", vipsGamma(World, image, st))
Brightness ==
    /\ CanTransform
    /\ \E st \in Status : Transformed("vipsBrightness", vipsBrightness(World, image, st))
Contrast ==
    /\ CanTransform
    /\ \E st \in Status : Transformed("vipsContrast", vipsContrast(World, image, st))
Extract ==
    /\ CanTransform
    /\ \E tooBig \in BOOLEAN, st \in Status :
         Transformed("vipsExtract", vipsExtract(World, image, tooBig, st))
SmartCrop ==
    /\ CanTransform
    /\ \E tooBig \in BOOLEAN, st \in Status :
         Transformed("vipsSmartCrop", vipsSmartCrop(World, image, tooBig, st))
Embed ==
    /\ CanTransform
    /\ \E extend \in {0, 5, 6}, bg \in BOOLEAN, st \in Status :
         Transformed("vipsEmbed", vipsEmbed(World, image, extend, bg, st))
Affine ==
    /\ CanTransform
    /\ \E st \in Status : Transformed("vipsAffine", vipsAffine(World, image, st))
WatermarkText ==
    /\ CanTransform
    /\ \E st \in Status : Transformed("vipsWatermark", vipsWatermark(World, image, st))
DrawWatermark ==
    /\ CanTransform
    /\ \E buf \in SampleBuffers, stRead \in Status, st \in Status :
         Transformed("vipsDrawWatermark",
                     vipsDrawWatermark(World, build, image, buf, stRead, st))
FlattenBackground ==
    /\ CanTransform
    /\ \E bg \in BOOLEAN, hasAlpha \in BOOLEAN, st \in Status :
         Transformed("vipsFlattenBackground",
                     vipsFlattenBackground(World, image, bg, hasAlpha, st))
Colorspace ==
    /\ CanTransform
    /\ \E o \in ColorspaceOptions, supported \in BOOLEAN, hasProfile \in BOOLEAN,
          st1 \in Status, st2 \in Status :
         Transformed("vipsColorspace",
                     vipsColorspace(World, image, o, supported, hasProfile, st1, st2))

\* vipsTrim releases the image and returns a box: the request ends
Trim ==
    /\ CanTransform
    /\ \E st \in Status :
         /\ Return("vipsTrim", vipsTrim(World, image, st), {image}, NoInfo)
         /\ image' = 0
         /\ nops' = nops + 1

\* getImageBuffer and vipsGetMetadataRaw borrow the caller's image
GetImageBuffer ==
    /\ CanTransform
    /\ \E st \in Status :
         /\ Return("getImageBuffer", getImageBuffer(World, image, st), {}, NoInfo)
         /\ image' = image
         /\ nops' = nops + 1
GetMetadataRaw ==
    /\ CanTransform
    /\ \E name \in {"xmp-data", "iptc-data"}, st \in Status :
         /\ Return("vipsGetMetadataRaw", vipsGetMetadataRaw(World, image, name, st),
                   {}, NoInfo)
         /\ image' = image
         /\ nops' = nops + 1

\* vipsSave returned r.  kept: the image held copyright data the metadata
\* step could keep; copyright: it held copyright data at all; handed: the
\* strip flag the save entry point took (-1: it takes none)
Saved(r, o, kept, copyright) ==
    /\ Return("vipsSave", r, {image},
              [o |-> o, strip |-> r.strip, found |-> r.found, kept |-> kept,
               copyright |-> copyright,
               handed |-> IF SaveTakesStrip(o.Type) THEN r.strip ELSE -1])
    /\ image' = 0
    /\ nops' = nops

Save ==
    /\ phase = "chain" /\ image # 0
    /\ \E o \in SaveOptions, st \in Status :
       \E foundExif \in IF o.StripMetadata /\ o.KeepCopyrightMetadata THEN {0, 1} ELSE {0},
          xmp \in IF o.StripMetadata /\ o.KeepCopyrightMetadata THEN XMPKinds ELSE {"absent"},
          iptc \in IF o.StripMetadata /\ o.KeepCopyrightMetadata THEN IPTCKinds ELSE {"absent"} :
         Saved(vipsSave(World, build, image, o, foundExif, xmp, iptc, st), o,
               foundExif = 1 \/ xmp = "copyright" \/ iptc = "copyright",
               foundExif = 1 \/ xmp \in {"copyright", "unmarshal"} \/ iptc = "copyright")

\* sizes of decoded images: small ones, the largest whose pixels fit the
\* array type of RGBAPixels, and the next one
SampleSizes == {<<1, 1>>, <<3, 2>>, <<8192, 8192>>, <<8192, 8193>>}

PixelsRGBA ==
    /\ phase = "new"
    /\ \E buf \in SampleBuffers, stRead \in Status, st \in Status, size \in SampleSizes :
         /\ Return("RGBAPixels",
                   RGBAPixels(World, build, buf, stRead, st, size[1], size[2]), {},
                   [buf |-> buf, type |-> vipsImageType(build, buf),
                    w |-> size[1], h |-> size[2],
                    len |-> PixelsLength(size[1], size[2])])
         /\ image' = 0
         /\ nops' = nops
ColourspaceIsSupportedBuffer ==
    /\ phase = "new"
    /\ \E buf \in SampleBuffers, stRead \in Status :
         /\ Return("vipsColourspaceIsSupportedBuffer",
                   vipsColourspaceIsSupportedBuffer(World, build, buf, stRead), {},
                   [buf |-> buf, type |-> vipsImageType(build, buf)])
         /\ image' = 0
         /\ nops' = nops
InterpretationBuffer ==
    /\ phase = "new"
    /\ \E buf \in SampleBuffers, stRead \in Status :
         /\ Return("vipsInterpretationBuffer",
                   vipsInterpretationBuffer(World, build, buf, stRead), {},
                   [buf |-> buf, type |-> vipsImageType(build, buf)])
         /\ image' = 0
         /\ nops' = nops

(***************************************************************************)
(* EXIF tag values.  A string is the sequence of its characters.           *)
(***************************************************************************)
\* the characters of the strings tried: the two of the separator, the
\* closing bracket of the test's inputs and another
Alphabet == {" ", "(", ")", "a"}
Strings == UNION {[1..n -> Alphabet] : n \in 0..MaxLen}

\* the positions (from 0) at which sub occurs in s
Occurrences(s, sub) ==
    {i \in 0..(Len(s) - Len(sub)) : SubSeq(s, i + 1, i + Len(sub)) = sub}

\* strings.Index: the first position of sub in s, -1 when there is none
Index(s, sub) ==
    IF Occurrences(s, sub) = {} THEN -1
    ELSE CHOOSE i \in Occurrences(s, sub) : \A j \in Occurrences(s, sub) : i <= j

\* vipsExifShort that cuts at an occurrence at position 0 too
vipsExifShort_fromZero(s) ==
    IF Index(s, <<" ", "(">>) >= 0 THEN SubSeq(s, 1, Index(s, <<" ", "(">>)) ELSE s

\* i := strings.Index(s, " ("); if i > 0 { return s[:i] }; return s
vipsExifShort(s) ==
    IF Index(s, <<" ", "(">>) > 0 THEN SubSeq(s, 1, Index(s, <<" ", "(">>)) ELSE s

\* no tag value shortened yet
NoTag == [s |-> <<>>, out |-> <<>>, again |-> <<>>, done |-> FALSE]

\* the cache limits Initialize sets
maxCacheMem == 100 * 1024 * 1024
maxCacheSize == 500

\* the goroutines of the lifecycle machine
MaxGoroutines == 2
Goroutines == 1..MaxGoroutines
\* no call in progress; no call has returned yet
\* libvips before any setting is made
NoCache == [maxMem |-> 0, max |-> 0, concurrency |-> 0, trace |-> FALSE]
\* what a call of Initialize did to the settings: whether VIPS_CONCURRENCY
\* was empty, and each setting before the statement of Initialize that sets
\* it and right after that statement
NoSetup == [concurrencyEmpty |-> FALSE, before |-> NoCache, after |-> NoCache]
NoCall == [kind |-> "", natives |-> <<>>, alone |-> TRUE, flag |-> FALSE,
           setup |-> NoSetup]
NoDone == [kind |-> "", natives |-> <<>>, repeat |-> FALSE, prevFlag |-> FALSE,
           prevStarted |-> FALSE, tested |-> FALSE, flagAfter |-> FALSE,
           startedAfter |-> FALSE, setup |-> NoSetup]
\* values a program hands to VipsCacheSetMaxMem and VipsCacheSetMax
SampleCacheMem == {50 * 1024 * 1024}
SampleCacheSize == {100}

\* a request runs in a process whose package init() has started libvips
Init ==
    /\ build \in Builds
    /\ phase = "new" /\ image = 0 /\ nops = 0
    /\ unrefs = <<>> /\ nbufs = <<>> /\ errbuf = <<>>
    /\ calls = <<>> /\ fails = <<>> /\ op = "" /\ held = {} /\ ret = 0
    /\ err = NilErr /\ data = NoData /\ info = NoInfo /\ tag = NoTag
    /\ m = 0 /\ initialized = TRUE /\ libStarted = TRUE /\ inNative = {}
    /\ pc = [g \in Goroutines |-> "idle"]
    /\ ncalls = 0
    /\ loaded = TRUE
    /\ cur = [g \in Goroutines |-> NoCall]
    /\ lastDone = NoDone
    /\ unguarded = 0 /\ stopped = FALSE /\ osThread = {}
    /\ cache = [maxMem |-> maxCacheMem, max |-> maxCacheSize, concurrency |-> 1,
                trace |-> FALSE]

Next ==
    \/ Read \/ Continue
    \/ Rotate \/ AutoRotate \/ TransformICC \/ Flip \/ Zoom
    \/ ShrinkJpeg \/ ShrinkWebp \/ Shrink \/ Reduce
    \/ GaussianBlur \/ Sharpen \/ Gamma \/ Brightness \/ Contrast
    \/ Extract \/ SmartCrop \/ Embed \/ Affine
    \/ WatermarkText \/ DrawWatermark \/ FlattenBackground \/ Colorspace
    \/ Trim \/ GetImageBuffer \/ GetMetadataRaw
    \/ Save
    \/ PixelsRGBA \/ ColourspaceIsSupportedBuffer \/ InterpretationBuffer

Spec == Init /\ [][Next]_vars

(***************************************************************************)
(* The lifecycle machine: Initialize and Shutdown, statement by statement, *)
(* run by goroutines that interleave.  Goroutine 1 runs the package's      *)
(* init(), which calls Initialize before anything else can run.            *)
(***************************************************************************)
\* the statements at which a call holds the mutex, between Lock and Unlock
Critical == {"I_init", "I_initret", "I_maxmem", "I_max", "I_concurrency", "I_trace",
             "I_flag", "I_unlock", "I_panic",
             "S_test", "S_shutdown", "S_shutret", "S_flag", "S_unlock"}
InCall(g) == pc[g] \notin {"idle", "panicked", "crashed"}

\* goroutine g moves to statement s
Goto(g, s) == pc' = [pc EXCEPT ![g] = s]
\* goroutine g's call in progress invokes native entry point f
Invoke(g, f) == cur' = [cur EXCEPT ![g].natives = Append(@, f)]
\* one more access to the flag without the mutex, if g does not hold it
Access(g) == unguarded' = IF m = g THEN unguarded ELSE unguarded + 1

\* m.Lock() blocks until the mutex is free; m.Unlock() frees it
Lock(g) == m = 0 /\ m' = g
Unlock(g) == m' = 0

\* the decode, transform and save operations other goroutines run, and the
\* native entry point each invokes
Operations == {"vipsRead", "vipsRotate", "vipsSave"}
EntryPoint(k) ==
    CASE k = "vipsRead" -> "vips_init_image"
      [] k = "vipsRotate" -> "vips_rotate_bridge"
      [] OTHER -> "vips_jpegsave_bridge"

\* a call that can start before the package's init() has returned
Start_beforeInit(g, k) ==
    /\ pc[g] = "idle"
    /\ ncalls < MaxCalls
    /\ ncalls' = ncalls + 1
    /\ cur' = [h \in Goroutines |->
                 IF h = g
                 THEN [kind |-> k, natives |-> <<>>,
                       alone |-> \A o \in Goroutines \ {g} : ~InCall(o),
                       flag |-> FALSE, setup |-> NoSetup]
                 ELSE IF InCall(h) THEN [cur[h] EXCEPT !.alone = FALSE] ELSE cur[h]]
    /\ Goto(g, IF k = "Initialize" THEN "I_lock"
                ELSE IF k = "Shutdown" THEN "S_lock" ELSE "O_native")
    /\ UNCHANGED <<mvars, m, initialized, libStarted, inNative, loaded, lastDone, unguarded, cache, stopped, osThread>>

\* a call of kind k starts: it is alone if no other call is in progress,
\* and a call it overlaps is no longer alone
Start(g, k) ==
    /\ pc[g] = "idle" /\ loaded
    /\ ncalls < MaxCalls
    /\ ncalls' = ncalls + 1
    /\ cur' = [h \in Goroutines |->
                 IF h = g
                 THEN [kind |-> k, natives |-> <<>>,
                       alone |-> \A o \in Goroutines \ {g} : ~InCall(o),
                       flag |-> FALSE, setup |-> NoSetup]
                 ELSE IF InCall(h) THEN [cur[h] EXCEPT !.alone = FALSE] ELSE cur[h]]
    /\ Goto(g, IF k = "Initialize" THEN "I_lock"
                ELSE IF k = "Shutdown" THEN "S_lock" ELSE "O_native")
    /\ UNCHANGED <<mvars, m, initialized, libStarted, inNative, loaded, lastDone, unguarded, cache, stopped, osThread>>

CallInitialize(g) == Start(g, "Initialize")
CallShutdown(g) == Start(g, "Shutdown")

\* the call of g returns and its bookkeeping is dropped.  repeat: it is the second of two in a row, having
\* run alone right after a call of the same kind; prevFlag and prevStarted
\* are what the call before it left; tested is the flag Shutdown read, or
\* the flag as it was when Initialize took the mutex
Done(g) ==
    /\ lastDone' = [kind |-> cur[g].kind, natives |-> cur[g].natives,
                    repeat |-> cur[g].alone /\ lastDone.kind = cur[g].kind,
                    prevFlag |-> lastDone.flagAfter,
                    prevStarted |-> lastDone.startedAfter,
                    tested |-> cur[g].flag,
                    flagAfter |-> initialized, startedAfter |-> libStarted,
                    setup |-> cur[g].setup]
    /\ cur' = [cur EXCEPT ![g] = NoCall]
    /\ loaded' = TRUE
    /\ Goto(g, "idle")

\* m.Lock(); runtime.LockOSThread()
InitializeLock(g) ==
    /\ pc[g] = "I_lock"
    /\ Lock(g)
    /\ osThread' = osThread \cup {g}
    /\ cur' = [cur EXCEPT ![g].flag = initialized]
    /\ Goto(g, "I_init")
    /\ UNCHANGED <<mvars, initialized, libStarted, inNative, ncalls, loaded,
                   lastDone, unguarded, cache, stopped>>

\* err := C.vips_init(...): the call is entered
InitializeVipsInit(g) ==
    /\ pc[g] = "I_init"
    /\ inNative' = inNative \cup {g}
    /\ Invoke(g, "vips_init")
    /\ Goto(g, "I_initret")
    /\ UNCHANGED <<mvars, m, initialized, libStarted, ncalls, loaded, lastDone, unguarded, cache, stopped, osThread>>

\* vips_init returns: zero and libvips is started, or non-zero and
\* Initialize panics
InitializeVipsInitReturn(g) ==
    /\ pc[g] = "I_initret"
    /\ inNative' = inNative \ {g}
    /\ \E st \in Status :
         /\ libStarted' = IF st = 0 THEN TRUE ELSE libStarted
         /\ Goto(g, IF st = 0 THEN "I_maxmem" ELSE "I_panic")
    /\ UNCHANGED <<mvars, m, initialized, ncalls, loaded, cur, lastDone, unguarded, cache, stopped, osThread>>

\* Initialize setting the memory limit only when the flag is not set yet
InitializeCacheSetMaxMem_onlyFirst(g) ==
    /\ pc[g] = "I_maxmem"
    /\ cache' = [cache EXCEPT !.maxMem = IF initialized THEN @ ELSE maxCacheMem]
    /\ cur' = [cur EXCEPT ![g].natives = Append(@, "vips_cache_set_max_mem"),
                          ![g].setup.before.maxMem = cache.maxMem,
                          ![g].setup.after.maxMem = cache'.maxMem]
    /\ Goto(g, "I_max")
    /\ UNCHANGED <<mvars, m, initialized, libStarted, inNative, ncalls, loaded,
                   lastDone, unguarded, stopped, osThread>>

\* C.vips_cache_set_max_mem(maxCacheMem).  setup records, statement by
\* statement, the setting before the statement and right after it
InitializeCacheSetMaxMem(g) ==
    /\ pc[g] = "I_maxmem"
    /\ cache' = [cache EXCEPT !.maxMem = maxCacheMem]
    /\ cur' = [cur EXCEPT ![g].natives = Append(@, "vips_cache_set_max_mem"),
                          ![g].setup.before.maxMem = cache.maxMem,
                          ![g].setup.after.maxMem = cache'.maxMem]
    /\ Goto(g, "I_max")
    /\ UNCHANGED <<mvars, m, initialized, libStarted, inNative, ncalls, loaded,
                   lastDone, unguarded, stopped, osThread>>

\* C.vips_cache_set_max(maxCacheSize)
InitializeCacheSetMax(g) ==
    /\ pc[g] = "I_max"
    /\ cache' = [cache EXCEPT !.max = maxCacheSize]
    /\ cur' = [cur EXCEPT ![g].natives = Append(@, "vips_cache_set_max"),
                          ![g].setup.before.max = cache.max,
                          ![g].setup.after.max = cache'.max]
    /\ Goto(g, "I_concurrency")
    /\ UNCHANGED <<mvars, m, initialized, libStarted, inNative, ncalls, loaded,
                   lastDone, unguarded, stopped, osThread>>

\* if os.Getenv("VIPS_CONCURRENCY") == "" { C.vips_concurrency_set(1) }
InitializeConcurrency(g) ==
    /\ pc[g] = "I_concurrency"
    /\ \E concurrencyEmpty \in BOOLEAN :
         /\ cache' = [cache EXCEPT !.concurrency = IF concurrencyEmpty THEN 1 ELSE @]
         /\ cur' = [cur EXCEPT
                      ![g].natives = IF concurrencyEmpty
                                     THEN Append(@, "vips_concurrency_set") ELSE @,
                      ![g].setup.concurrencyEmpty = concurrencyEmpty,
                      ![g].setup.before.concurrency = cache.concurrency,
                      ![g].setup.after.concurrency = cache'.concurrency]
    /\ Goto(g, "I_trace")
    /\ UNCHANGED <<mvars, m, initialized, libStarted, inNative, ncalls, loaded,
                   lastDone, unguarded, stopped, osThread>>

\* if os.Getenv("VIPS_TRACE") != "" { C.vips_enable_cache_set_trace() }
InitializeTrace(g) ==
    /\ pc[g] = "I_trace"
    /\ \E traceSet \in BOOLEAN :
         /\ cache' = [cache EXCEPT !.trace = traceSet \/ @]
         /\ cur' = [cur EXCEPT
                      ![g].natives = IF traceSet
                                     THEN Append(@, "vips_enable_cache_set_trace") ELSE @,
                      ![g].setup.before.trace = cache.trace,
                      ![g].setup.after.trace = cache'.trace]
    /\ Goto(g, "I_flag")
    /\ UNCHANGED <<mvars, m, initialized, libStarted, inNative, ncalls, loaded,
                   lastDone, unguarded, stopped, osThread>>

\* initialized = true
InitializeFlag(g) ==
    /\ pc[g] = "I_flag"
    /\ initialized' = TRUE
    /\ Access(g)
    /\ Goto(g, "I_unlock")
    /\ UNCHANGED <<mvars, m, libStarted, inNative, ncalls, loaded, cur, lastDone, cache, stopped, osThread>>

\* the deferred runtime.UnlockOSThread() and m.Unlock(), then the return
InitializeUnlock(g) ==
    /\ pc[g] = "I_unlock"
    /\ osThread' = osThread \ {g}
    /\ Unlock(g)
    /\ Done(g)
    /\ UNCHANGED <<mvars, initialized, libStarted, inNative, ncalls, unguarded, cache,
                   stopped>>

\* Initialize panicking without the deferred m.Unlock()
InitializePanic_locked(g) ==
    /\ pc[g] = "I_panic"
    /\ osThread' = osThread \ {g}
    /\ lastDone' = [kind |-> "panic", natives |-> cur[g].natives, repeat |-> FALSE,
                    prevFlag |-> lastDone.flagAfter,
                    prevStarted |-> lastDone.startedAfter,
                    tested |-> cur[g].flag,
                    flagAfter |-> initialized, startedAfter |-> libStarted,
                    setup |-> NoSetup]
    /\ cur' = [cur EXCEPT ![g] = NoCall]
    /\ Goto(g, IF loaded THEN "panicked" ELSE "crashed")
    /\ UNCHANGED <<mvars, m, initialized, libStarted, inNative, ncalls, loaded,
                   unguarded, cache, stopped>>

\* panic("unable to start vips!"): the deferred runtime.UnlockOSThread() and
\* m.Unlock() run, the flag is not touched; tested: the flag as it was when
\* the call took the mutex.  A panic inside the package's init() ends the
\* program
InitializePanic(g) ==
    /\ pc[g] = "I_panic"
    /\ osThread' = osThread \ {g}
    /\ Unlock(g)
    /\ lastDone' = [kind |-> "panic", natives |-> cur[g].natives, repeat |-> FALSE,
                    prevFlag |-> lastDone.flagAfter,
                    prevStarted |-> lastDone.startedAfter,
                    tested |-> cur[g].flag,
                    flagAfter |-> initialized, startedAfter |-> libStarted,
                    setup |-> NoSetup]
    /\ cur' = [cur EXCEPT ![g] = NoCall]
    /\ Goto(g, IF loaded THEN "panicked" ELSE "crashed")
    /\ UNCHANGED <<mvars, initialized, libStarted, inNative, ncalls, loaded,
                   unguarded, cache, stopped>>

\* the caller recovers from the panic
Recover(g) ==
    /\ pc[g] = "panicked"
    /\ Goto(g, "idle")
    /\ UNCHANGED <<mvars, m, initialized, libStarted, inNative, ncalls, loaded, cur,
                   lastDone, unguarded, cache, stopped, osThread>>

\* Shutdown without m.Lock()
ShutdownLock_noMutex(g) ==
    /\ pc[g] = "S_lock"
    /\ Goto(g, "S_test")
    /\ UNCHANGED <<mvars, m, initialized, libStarted, inNative, ncalls, loaded, cur,
                   lastDone, unguarded, cache, stopped, osThread>>

\* VipsCacheSetMaxMem(v) and VipsCacheSetMax(v): pass-through setters, called
\* by a goroutine that is in neither Initialize nor Shutdown; each counts as
\* one of the MaxCalls calls
VipsCacheSetMaxMem(g) ==
    /\ pc[g] = "idle" /\ loaded /\ ncalls < MaxCalls
    /\ \E v \in SampleCacheMem : cache' = [cache EXCEPT !.maxMem = v]
    /\ ncalls' = ncalls + 1
    /\ UNCHANGED <<mvars, m, initialized, libStarted, inNative, pc, loaded, cur,
                   lastDone, unguarded, stopped, osThread>>
VipsCacheSetMax(g) ==
    /\ pc[g] = "idle" /\ loaded /\ ncalls < MaxCalls
    /\ \E v \in SampleCacheSize : cache' = [cache EXCEPT !.max = v]
    /\ ncalls' = ncalls + 1
    /\ UNCHANGED <<mvars, m, initialized, libStarted, inNative, pc, loaded, cur,
                   lastDone, unguarded, stopped, osThread>>

\* an operation is called; it takes no lock and does not test the flag
CallOperation(g) == \E k \in Operations : Start(g, k)

\* the operation enters its native entry point; flag: the value the flag has
\* at that moment
OperationNative(g) ==
    /\ pc[g] = "O_native"
    /\ cur' = [cur EXCEPT ![g].natives = Append(@, EntryPoint(cur[g].kind)),
                          ![g].flag = initialized]
    /\ Goto(g, "O_ret")
    /\ UNCHANGED <<mvars, m, initialized, libStarted, inNative, ncalls, loaded,
                   lastDone, unguarded, cache, stopped, osThread>>

\* the entry point returns, and the operation with it
OperationReturn(g) ==
    /\ pc[g] = "O_ret"
    /\ cur' = [cur EXCEPT ![g] = NoCall]
    /\ Goto(g, "idle")
    /\ UNCHANGED <<mvars, m, initialized, libStarted, inNative, ncalls, loaded,
                   lastDone, unguarded, cache, stopped, osThread>>

\* m.Lock()
ShutdownLock(g) ==
    /\ pc[g] = "S_lock"
    /\ Lock(g)
    /\ Goto(g, "S_test")
    /\ UNCHANGED <<mvars, initialized, libStarted, inNative, ncalls, loaded, cur,
                   lastDone, unguarded, cache, stopped, osThread>>

\* Shutdown without the test of the flag
ShutdownTest_always(g) ==
    /\ pc[g] = "S_test"
    /\ Access(g)
    /\ cur' = [cur EXCEPT ![g].flag = initialized]
    /\ Goto(g, "S_shutdown")
    /\ UNCHANGED <<mvars, m, initialized, libStarted, inNative, ncalls, loaded, lastDone, cache, stopped, osThread>>

\* if initialized { ... }
ShutdownTest(g) ==
    /\ pc[g] = "S_test"
    /\ Access(g)
    /\ cur' = [cur EXCEPT ![g].flag = initialized]
    /\ Goto(g, IF initialized THEN "S_shutdown" ELSE "S_unlock")
    /\ UNCHANGED <<mvars, m, initialized, libStarted, inNative, ncalls, loaded, lastDone, cache, stopped, osThread>>

\* C.vips_shutdown(): the call is entered
ShutdownVipsShutdown(g) ==
    /\ pc[g] = "S_shutdown"
    /\ inNative' = inNative \cup {g}
    /\ Invoke(g, "vips_shutdown")
    /\ stopped' = TRUE
    /\ Goto(g, "S_shutret")
    /\ UNCHANGED <<mvars, m, initialized, libStarted, ncalls, loaded, lastDone, unguarded, cache,
                   osThread>>

\* vips_shutdown returns: libvips is stopped
ShutdownVipsShutdownReturn(g) ==
    /\ pc[g] = "S_shutret"
    /\ inNative' = inNative \ {g}
    /\ libStarted' = FALSE
    /\ Goto(g, "S_flag")
    /\ UNCHANGED <<mvars, m, initialized, ncalls, loaded, cur, lastDone, unguarded, cache, stopped, osThread>>

\* Shutdown without initialized = false
ShutdownFlag_kept(g) ==
    /\ pc[g] = "S_flag"
    /\ Access(g)
    /\ Goto(g, "S_unlock")
    /\ UNCHANGED <<mvars, m, initialized, libStarted, inNative, ncalls, loaded, cur,
                   lastDone, cache, stopped, osThread>>

\* initialized = false
ShutdownFlag(g) ==
    /\ pc[g] = "S_flag"
    /\ initialized' = FALSE
    /\ Access(g)
    /\ Goto(g, "S_unlock")
    /\ UNCHANGED <<mvars, m, libStarted, inNative, ncalls, loaded, cur, lastDone, cache, stopped, osThread>>

\* the deferred m.Unlock(), then the return
ShutdownUnlock(g) ==
    /\ pc[g] = "S_unlock"
    /\ Unlock(g)
    /\ Done(g)
    /\ UNCHANGED <<mvars, initialized, libStarted, inNative, ncalls, unguarded, cache,
                   stopped, osThread>>

\* the process starts: nothing is initialized, and goroutine 1 is inside the
\* Initialize call of the package's init()
InitLife ==
    /\ build = FullBuild
    /\ phase = "new" /\ image = 0 /\ nops = 0
    /\ unrefs = <<>> /\ nbufs = <<>> /\ errbuf = <<>>
    /\ calls = <<>> /\ fails = <<>> /\ op = "" /\ held = {} /\ ret = 0
    /\ err = NilErr /\ data = NoData /\ info = NoInfo /\ tag = NoTag
    /\ m = 0 /\ initialized = FALSE /\ libStarted = FALSE /\ inNative = {}
    /\ pc = [g \in Goroutines |-> IF g = 1 THEN "I_lock" ELSE "idle"]
    /\ ncalls = 0
    /\ loaded = FALSE
    /\ cur = [g \in Goroutines |->
                IF g = 1 THEN [NoCall EXCEPT !.kind = "Initialize"] ELSE NoCall]
    /\ lastDone = NoDone
    /\ unguarded = 0 /\ stopped = FALSE /\ osThread = {}
    /\ cache = NoCache

NextLife ==
    \E g \in Goroutines :
        \/ CallInitialize(g) \/ CallShutdown(g)
        \/ InitializeLock(g) \/ InitializeVipsInit(g) \/ InitializeVipsInitReturn(g)
        \/ InitializeCacheSetMaxMem(g) \/ InitializeCacheSetMax(g)
        \/ InitializeConcurrency(g) \/ InitializeTrace(g)
        \/ InitializeFlag(g) \/ InitializeUnlock(g)
        \/ InitializePanic(g) \/ Recover(g)
        \/ ShutdownLock(g) \/ ShutdownTest(g) \/ ShutdownVipsShutdown(g)
        \/ ShutdownVipsShutdownReturn(g) \/ ShutdownFlag(g) \/ ShutdownUnlock(g)
        \/ VipsCacheSetMaxMem(g) \/ VipsCacheSetMax(g)
        \/ CallOperation(g) \/ OperationNative(g) \/ OperationReturn(g)

SpecLife == InitLife /\ [][NextLife]_vars

\* the statements of the calls in progress: a goroutine that can run its next
\* statement runs it in the end (the Go scheduler), and a native call returns.
\* Starting a call and recovering from a panic are up to the program.
Step(g) ==
    \/ InitializeLock(g) \/ InitializeVipsInit(g) \/ InitializeVipsInitReturn(g)
    \/ InitializeCacheSetMaxMem(g) \/ InitializeCacheSetMax(g)
    \/ InitializeConcurrency(g) \/ InitializeTrace(g)
    \/ InitializeFlag(g) \/ InitializeUnlock(g)
    \/ InitializePanic(g)
    \/ ShutdownLock(g) \/ ShutdownTest(g) \/ ShutdownVipsShutdown(g)
    \/ ShutdownVipsShutdownReturn(g) \/ ShutdownFlag(g) \/ ShutdownUnlock(g)
    \/ OperationNative(g) \/ OperationReturn(g)

SpecLifeFair == SpecLife /\ \A g \in Goroutines : WF_vars(Step(g))

(***************************************************************************)
(* Properties of the request machine (Spec).                               *)
(***************************************************************************)
\* the handles the last operation held, did not return and did not release
Leaked == {h \in held : h # ret /\ unrefs[h] = 0}

\* the positions in calls of entry point f
Calls(f) == {i \in DOMAIN calls : calls[i].f = f}
Releases == {i \in DOMAIN calls : calls[i].f \in {"g_object_unref", "g_free", "free"}}
BlobReads == {"vips_image_get_blob:xmp-data", "vips_image_get_blob:iptc-data"}

\* C1: when an operation returns, every handle it held other than the one
\* it returns has been released.
C1_NoHandleLeaked == phase = "returned" => Leaked = {}

\* the chain is over: vipsSave returned, or an operation returned an error
ChainOver == phase = "returned" /\ (op = "vipsSave" \/ ~err.nil)

\* C2: along a chain vipsRead -> transforms -> vipsSave every handle is
\* released exactly once: no g_object_unref is made on a handle that an
\* earlier operation of the chain, or an earlier statement of the same
\* operation, already released, and when the chain is over, on success and on
\* error alike, every handle of the chain has been released.
C2_ReleasedExactlyOnce ==
    /\ \A h \in DOMAIN unrefs : unrefs[h] <= 1
    /\ \A i \in Calls("g_object_unref") : calls[i].live
    /\ ChainOver => \A h \in DOMAIN unrefs : unrefs[h] = 1

\* the half of C2 that the operations keep: no handle is released twice
C2_NoDoubleRelease ==
    /\ \A h \in DOMAIN unrefs : unrefs[h] <= 1
    /\ \A i \in Calls("g_object_unref") : calls[i].live

\* C3: within one operation the error buffer is never read after
\* vips_thread_shutdown.
C3_NoErrorReadAfterShutdown ==
    \A i \in Calls("vips_thread_shutdown"), j \in Calls("vips_error_buffer") : j < i

\* C4 as claimed: every non-zero status makes the operation return an error
\* whose message is the error buffer's text at that moment.
C4_EveryFailureSurfaced ==
    \A i \in DOMAIN fails : ~err.nil /\ err.msg = fails[i].text

\* C4 (amended): every non-zero status of an entry point makes the
\* operation return an error whose message is the error buffer's text at
\* that moment, except the status of vips_image_get_blob inside vipsSave
\* (keepCopyrightMetadata drops the errors of stripMetadataXMP and
\* stripMetadataIPTC).
C4_FailureSurfacedExceptBlob ==
    \A i \in DOMAIN fails :
        ~(op = "vipsSave" /\ fails[i].f \in BlobReads)
            => ~err.nil /\ err.by = "catchVipsError" /\ err.msg = fails[i].text

\* vipsSave dropped two failed blob reads and surfaced the encoder's failure
C4_Witness ==
    /\ op = "vipsSave" /\ Len(fails) = 3 /\ ~err.nil
    /\ err.msg = fails[3].text

\* the last operation was vipsRead or vipsReadAll on a buffer of unknown type
ReadUnknown ==
    /\ op \in {"vipsRead", "vipsReadAll"}
    /\ vipsImageType(build, info.buf) = UNKNOWN

\* C5 as claimed: a buffer of unknown type is rejected with no native entry
\* point invoked at all.
C5_UnknownRejectedWithoutNative ==
    ReadUnknown =>
        /\ ret = 0 /\ info.type = UNKNOWN /\ ~err.nil
        /\ calls = <<>>

\* C5 (amended): a buffer of unknown type is rejected with (nil, UNKNOWN,
\* "Unsupported image format") and the decoder vips_init_image is never
\* invoked; a buffer shorter than 12 bytes is rejected with no native call
\* at all, a longer one may have been passed to
\* vips_foreign_find_load_buffer while sniffing.
C5_UnknownRejectedBeforeDecoder ==
    ReadUnknown =>
        /\ ret = 0 /\ info.type = UNKNOWN
        /\ err = GoErr("Unsupported image format")
        /\ Calls("vips_init_image") = {}
        /\ \A i \in DOMAIN calls : calls[i].f = "vips_foreign_find_load_buffer"
        /\ Len(info.buf.bytes) < 12 => calls = <<>>

\* a 12-byte buffer with no known signature was rejected
C5_Witness ==
    /\ ReadUnknown /\ Len(info.buf.bytes) >= 12
    /\ ret = 0 /\ ~err.nil

\* C6: a byte slice an operation returns is a copy in managed memory, made
\* before the native buffer and the handle are released.
C6_ReturnedBytesAreCopies ==
    data.mem # "none" =>
        /\ data.mem = "go"
        /\ \A j \in Releases : \E i \in Calls("GoBytes") : i < j

(***************************************************************************)
(* Properties of the lifecycle machine (SpecLife).                         *)
(***************************************************************************)
\* C7: Initialize and Shutdown are serialized: at most one call is between
\* Lock and Unlock and it holds the mutex, vips_init and vips_shutdown never
\* overlap, and the flag is only accessed with the mutex held.
C7_Serialized ==
    /\ Cardinality({g \in Goroutines : pc[g] \in Critical}) <= 1
    /\ \A g \in Goroutines : pc[g] \in Critical => m = g
    /\ Cardinality(inNative) <= 1
    /\ unguarded = 0

\* a goroutine is inside vips_shutdown while another waits in Initialize
C7_Witness ==
    \E g, h \in Goroutines : pc[g] = "S_shutret" /\ pc[h] = "I_lock"

\* C8 as claimed: the second of two calls in a row changes neither the flag
\* nor the library and invokes no native entry point.
C8_SecondCallInvokesNothing ==
    lastDone.repeat =>
        /\ lastDone.flagAfter = lastDone.prevFlag
        /\ lastDone.startedAfter = lastDone.prevStarted
        /\ lastDone.natives = <<>>

\* C8 (amended): the second of two calls in a row leaves the flag and the
\* library as the first left them; a second Shutdown invokes no native entry
\* point, a second Initialize invokes vips_init and the cache setters again
\* (and then whatever the environment variables ask for).
C8_SecondCallKeepsState ==
    lastDone.repeat =>
        /\ lastDone.flagAfter = lastDone.prevFlag
        /\ lastDone.startedAfter = lastDone.prevStarted
        /\ lastDone.kind = "Shutdown" => lastDone.natives = <<>>
        /\ lastDone.kind = "Initialize" =>
               /\ Len(lastDone.natives) >= 3
               /\ SubSeq(lastDone.natives, 1, 3) =
                      <<"vips_init", "vips_cache_set_max_mem", "vips_cache_set_max">>
               /\ \A i \in 4..Len(lastDone.natives) :
                      lastDone.natives[i] \in
                          {"vips_concurrency_set", "vips_enable_cache_set_trace"}

\* Initialize returned for the second time in a row
C8_Witness == lastDone.repeat /\ lastDone.kind = "Initialize"

\* C9: whenever no call holds the mutex, the flag is true exactly when
\* libvips is started.
C9_FlagTracksLibrary == m = 0 => (initialized <=> libStarted)

\* a Shutdown that found the library started has returned
C9_Witness ==
    /\ m = 0 /\ lastDone.kind = "Shutdown" /\ lastDone.tested
    /\ ~initialized /\ ~libStarted

\* C10: a Shutdown that finds the flag set is a no-op: it does not invoke
\* vips_shutdown and it leaves the flag set.
C10_NoOpWhenInitialized ==
    (lastDone.kind = "Shutdown" /\ lastDone.tested) =>
        lastDone.natives = <<>> /\ lastDone.flagAfter

\* what the body of Shutdown does instead: a Shutdown that finds the flag
\* clear invokes no native entry point and leaves the flag clear; one that
\* finds the flag set invokes vips_shutdown once and clears the flag.
ShutdownFollowsFlag ==
    lastDone.kind = "Shutdown" =>
        /\ ~lastDone.flagAfter
        /\ lastDone.natives = IF lastDone.tested THEN <<"vips_shutdown">> ELSE <<>>


(***************************************************************************)
(* Errors, retries and results of the request machine (Spec).              *)
(***************************************************************************)
\* the operations that decode a buffer themselves
Decoders == {"vipsRead", "vipsReadAll", "vipsDrawWatermark", "RGBAPixels",
             "vipsColourspaceIsSupportedBuffer", "vipsInterpretationBuffer"}

\* the messages operation o composes itself, each for one test of its input
InputErrors(o) ==
    CASE o \in Decoders -> {"Unsupported image format"}
      [] o \in {"vipsExtract", "vipsSmartCrop"} -> {"Maximum image size exceeded"}
      [] o = "vipsEmbed" -> {"cannot use ExtendBackground without specifying a background"}
      [] o = "vipsFlattenBackground" -> {"cannot flatten without background"}
      [] o = "vipsSave" -> {"VIPS cannot save to"}
      [] OTHER -> {}

\* C11 as claimed: every error an operation returns carries the native
\* error buffer's text obtained through catchVipsError.
C11_OnlyNativeErrors == ~err.nil => err.by = "catchVipsError"

\* C11 (amended): an error an operation returns is of one of two kinds:
\* the native error buffer's text obtained through catchVipsError, after a
\* non-zero native status, or a message the Go layer composes when it
\* rejects its input (unknown format, size over the maximum, missing
\* background, type that cannot be saved).
C11_NativeOrInputErrors ==
    (~err.nil /\ err.by # "panic") =>
        \/ /\ err.by = "catchVipsError"
           /\ \E i \in DOMAIN fails : err.msg = fails[i].text
        \/ /\ err.by = "go"
           /\ \E t \in InputErrors(op) : err.msg = <<t>>

\* vipsSave refused a type libvips cannot save
C11_Witness == op = "vipsSave" /\ ~err.nil /\ err.by = "go"

\* what an operation still invokes on its way out after a failure: the
\* error buffer calls of catchVipsError and the releases
Cleanup == {"vips_error_buffer", "vips_error_clear", "vips_thread_shutdown",
            "g_object_unref", "g_free", "free"}

\* the calls operation made after the failure fails[i]
After(i) == {j \in DOMAIN calls : j > fails[i].at}

\* C12 as claimed: after a non-zero status the operation invokes no further
\* decode, transform, metadata or save entry point before it returns.
C12_NothingAfterFailure ==
    \A i \in DOMAIN fails : \A j \in After(i) : calls[j].f \in Cleanup

\* C12 (amended): after a non-zero status an operation invokes only
\* catchVipsError's calls and releases before it returns, and never the
\* failed entry point again, except that vipsSave, after a failed
\* vips_image_get_blob inside keepCopyrightMetadata, goes on with the
\* remaining metadata step and the save call.
C12_NothingAfterFailureExceptBlob ==
    \A i \in DOMAIN fails : \A j \in After(i) :
        /\ calls[j].f # fails[i].f
        /\ ~(op = "vipsSave" /\ fails[i].f \in BlobReads) => calls[j].f \in Cleanup

\* vipsAffine failed and released the interpolator and the input on its way out
C12_Witness ==
    /\ op = "vipsAffine" /\ Len(fails) = 1
    /\ Cardinality(After(1)) = 5

\* C13: for a buffer that decodes to an image of any width w and height h,
\* RGBAPixels returns the pixels with length 4 * w * h and a nil error, and
\* neither fails nor panics because of the size.
C13_PixelsOfAnySize ==
    (op = "RGBAPixels" /\ info.type # UNKNOWN /\ fails = <<>>) =>
        /\ err.nil
        /\ data.mem # "none"
        /\ info.len = 4 * info.w * info.h

(***************************************************************************)
(* Format sniffing.                                                        *)
(***************************************************************************)
\* the order in which the types are tested
TypeOrder == <<"JPEG", "GIF", "PNG", "TIFF", "PDF", "WEBP", "SVG", "MAGICK",
               "HEIF", "HEIF", "HEIF", "HEIF", "HEIF", "AVIF", "JP2K", "JXL">>

\* test i of the order matches the buffer and libvips supports what it asks for
Matches(i) == SniffRules(build, info.buf)[i].guard /\ SniffRules(build, info.buf)[i].match

\* the last operation sniffed the buffer info.buf
SniffedBuffer == op \in Decoders \ {"vipsDrawWatermark"}

\* C14: vipsImageType returns UNKNOWN for a buffer shorter than 12 bytes,
\* whatever it starts with, and otherwise the type of the first test that
\* matches in the order JPEG, GIF, PNG, TIFF, PDF, WEBP, SVG, MAGICK, HEIF
\* brands, AVIF, JP2K, JXL, or UNKNOWN when none does; vipsRead reports
\* that type for a buffer it decodes.
C14_FirstSignatureInOrder ==
    SniffedBuffer =>
        /\ Len(info.buf.bytes) < 12 => vipsImageType(build, info.buf) = UNKNOWN
        /\ Len(info.buf.bytes) >= 12 =>
              /\ [i \in 1..16 |-> SniffRules(build, info.buf)[i].type] = TypeOrder
              /\ \/ /\ vipsImageType(build, info.buf) = UNKNOWN
                    /\ \A i \in 1..16 : ~Matches(i)
                 \/ \E i \in 1..16 :
                       /\ Matches(i) /\ \A j \in 1..(i - 1) : ~Matches(j)
                       /\ vipsImageType(build, info.buf) = TypeOrder[i]
        /\ (op \in {"vipsRead", "vipsReadAll"} /\ err.nil) =>
              ret # 0 /\ info.type = vipsImageType(build, info.buf)

\* vipsRead decoded as GIF a buffer that has the GIF signature and the WEBP tag
C14_Witness ==
    /\ op = "vipsRead" /\ err.nil /\ info.type = "GIF"
    /\ Matches(2) /\ Matches(6)

\* C19: vipsImageType returns no type libvips cannot load, JPEG and PNG
\* excepted: a result other than JPEG, PNG and UNKNOWN is a supported type
\* (HEIF for AVIF), while JPEG and PNG are returned from their signatures
\* whatever libvips supports.
C19_OnlySupportedTypes ==
    SniffedBuffer =>
        /\ vipsImageType(build, info.buf) \in
               {"GIF", "TIFF", "PDF", "WEBP", "SVG", "MAGICK", "HEIF", "JP2K", "JXL"}
               => IsTypeSupported(build, vipsImageType(build, info.buf))
        /\ vipsImageType(build, info.buf) = "AVIF" => IsTypeSupported(build, "HEIF")
        /\ vipsImageType(build, info.buf) \in
               ImageTypes \cup {UNKNOWN}
        /\ (Len(info.buf.bytes) >= 12 /\ SubSeq(info.buf.bytes, 1, 3) = <<255, 216, 255>>)
               => vipsImageType(build, info.buf) = "JPEG"
        /\ (Len(info.buf.bytes) >= 12 /\ SubSeq(info.buf.bytes, 1, 4) = <<137, 80, 78, 71>>)
               => vipsImageType(build, info.buf) = "PNG"

\* a JPEG or PNG buffer was sniffed as such with a libvips that loads nothing
C19_Witness ==
    /\ SniffedBuffer /\ build = BareBuild /\ Len(info.buf.bytes) >= 12
    /\ vipsImageType(build, info.buf) \in {"JPEG", "PNG"}

(***************************************************************************)
(* vipsExifShort on its own (SpecExif).                                    *)
(***************************************************************************)
InitExif ==
    /\ build = FullBuild
    /\ phase = "new" /\ image = 0 /\ nops = 0
    /\ unrefs = <<>> /\ nbufs = <<>> /\ errbuf = <<>>
    /\ calls = <<>> /\ fails = <<>> /\ op = "" /\ held = {} /\ ret = 0
    /\ err = NilErr /\ data = NoData /\ info = NoInfo
    /\ tag \in {[NoTag EXCEPT !.s = s] : s \in Strings}
    /\ m = 0 /\ initialized = TRUE /\ libStarted = TRUE /\ inNative = {}
    /\ pc = [g \in Goroutines |-> "idle"]
    /\ ncalls = 0
    /\ loaded = TRUE
    /\ cur = [g \in Goroutines |-> NoCall]
    /\ lastDone = NoDone
    /\ unguarded = 0 /\ stopped = FALSE /\ osThread = {}
    /\ cache = [maxMem |-> maxCacheMem, max |-> maxCacheSize, concurrency |-> 1,
                trace |-> FALSE]

\* vipsExifShort(s), and vipsExifShort of what it returned
ExifShort ==
    /\ ~tag.done
    /\ tag' = [s |-> tag.s, out |-> vipsExifShort(tag.s),
               again |-> vipsExifShort(vipsExifShort(tag.s)), done |-> TRUE]
    /\ UNCHANGED <<build, phase, image, nops, unrefs, nbufs, errbuf, calls, fails,
                   op, held, ret, err, data, info, lvars>>

NextExif == ExifShort

SpecExif == InitExif /\ [][NextExif]_vars

\* s has the separator " (" at position i (from 0)
SeparatorAt(s, i) == i + 2 <= Len(s) /\ s[i + 1] = " " /\ s[i + 2] = "("

\* C15: vipsExifShort(s) is the prefix of s before the first " (" when that
\* occurrence starts after position 0, and s itself otherwise; "( ()" gives
\* "(", " ()" is unchanged, and shortening the result again changes nothing.
C15_PrefixBeforeSeparator ==
    tag.done =>
        /\ \/ /\ \E i \in 1..Len(tag.s) :
                    /\ SeparatorAt(tag.s, i)
                    /\ \A j \in 0..(i - 1) : ~SeparatorAt(tag.s, j)
                    /\ tag.out = SubSeq(tag.s, 1, i)
           \/ /\ SeparatorAt(tag.s, 0) \/ \A i \in 0..Len(tag.s) : ~SeparatorAt(tag.s, i)
              /\ tag.out = tag.s
        /\ tag.s = <<"(", " ", "(", ")">> => tag.out = <<"(">>
        /\ tag.s = <<" ", "(", ")">> => tag.out = tag.s
        /\ tag.again = tag.out

\* a value with the separator at its start and again later is left whole
C15_Witness ==
    /\ tag.done /\ tag.s = <<" ", "(", " ", "(">>
    /\ tag.out = tag.s

(***************************************************************************)
(* vipsSave.                                                               *)
(***************************************************************************)
SaveEntries == {"vips_webpsave_bridge", "vips_pngsave_bridge", "vips_tiffsave_bridge",
                "vips_heifsave_bridge", "vips_avifsave_bridge", "vips_gifsave_bridge",
                "vips_jp2ksave_bridge", "vips_jxlsave_bridge", "vips_jpegsave_bridge"}
\* the positions in calls of the save entry points
SaveCalls == {i \in DOMAIN calls : calls[i].f \in SaveEntries}
\* vipsSave was asked to keep copyright data while stripping
KeepAsked == info.o.StripMetadata /\ info.o.KeepCopyrightMetadata

\* C16 as claimed: with StripMetadata and KeepCopyrightMetadata set, the
\* strip flag handed to the encoder is 0 exactly when the image holds
\* copyright data, for every output type, and it equals StripMetadata in
\* every other case.
C16_StripFlagKeepsCopyright ==
    (op = "vipsSave" /\ SaveCalls # {}) =>
        info.handed = IF KeepAsked /\ info.copyright THEN 0
                      ELSE boolToInt(info.o.StripMetadata)

\* C16 (amended): with StripMetadata and KeepCopyrightMetadata set, the
\* strip flag vipsSave computes is 0 exactly when keepCopyrightMetadata
\* found copyright data it kept (EXIF fields, XMP nodes written back, IPTC
\* records), and it equals StripMetadata in every other case; the flag is
\* handed to every save entry point but the TIFF one, which takes none.
C16_StripFlagFollowsFound ==
    (op = "vipsSave" /\ SaveCalls # {}) =>
        /\ KeepAsked => (info.found <=> info.kept)
        /\ info.strip = IF KeepAsked /\ info.kept THEN 0
                        ELSE boolToInt(info.o.StripMetadata)
        /\ info.handed = IF info.o.Type = "TIFF" THEN -1 ELSE info.strip

\* a WEBP was saved unstripped because its XMP held copyright nodes
C16_Witness ==
    /\ op = "vipsSave" /\ err.nil /\ info.o.Type = "WEBP"
    /\ KeepAsked /\ info.kept /\ info.handed = 0
    /\ Calls("vips_image_set_blob_copy:xmp-data") # {}

\* the save entry point of each type that has one
Saver ==
    [t \in {"JPEG", "WEBP", "PNG", "TIFF", "HEIF", "AVIF", "GIF", "JP2K", "JXL"} |->
        CASE t = "JPEG" -> "vips_jpegsave_bridge"
          [] t = "WEBP" -> "vips_webpsave_bridge"
          [] t = "PNG" -> "vips_pngsave_bridge"
          [] t = "TIFF" -> "vips_tiffsave_bridge"
          [] t = "HEIF" -> "vips_heifsave_bridge"
          [] t = "AVIF" -> "vips_avifsave_bridge"
          [] t = "GIF" -> "vips_gifsave_bridge"
          [] t = "JP2K" -> "vips_jp2ksave_bridge"
          [] t = "JXL" -> "vips_jxlsave_bridge"]

\* C17: vipsSave makes one save call per request: for a type libvips
\* cannot save it returns a "VIPS cannot save to" error and invokes no save
\* entry point; otherwise it invokes one save entry point, the one of the
\* type (the JPEG one for type 0); either way the input handle is released
\* once before the return.
C17_OneSaveCall ==
    op = "vipsSave" =>
        /\ IF info.o.Type # UNKNOWN /\ ~IsTypeSupportedSave(build, info.o.Type)
           THEN SaveCalls = {} /\ err = GoErr("VIPS cannot save to")
           ELSE /\ Cardinality(SaveCalls) = 1
                /\ \A i \in SaveCalls :
                      /\ calls[i].h \in held /\ calls[i].live
                      /\ calls[i].f = IF info.o.Type = UNKNOWN THEN Saver["JPEG"]
                                      ELSE Saver[info.o.Type]
        /\ Cardinality(Calls("g_object_unref")) = 1
        /\ \A h \in held : unrefs[h] = 1
        /\ calls[Len(calls)].f = "g_object_unref"

\* an AVIF was saved through the AVIF entry point
C17_Witness ==
    /\ op = "vipsSave" /\ info.o.Type = "AVIF" /\ err.nil
    /\ Calls("vips_avifsave_bridge") # {} /\ data.mem = "go"

(***************************************************************************)
(* libvips settings (SpecLife).                                            *)
(***************************************************************************)
\* C18: every Initialize that returns has set the cache limits to 100 MiB
\* and 500 operations and, exactly when VIPS_CONCURRENCY is empty, the
\* concurrency to 1, whatever VipsCacheSetMaxMem and VipsCacheSetMax had set
\* and whether or not the library was initialized.
C18_InitializeResetsCache ==
    lastDone.kind = "Initialize" =>
        /\ lastDone.setup.after.maxMem = 104857600
        /\ lastDone.setup.after.max = 500
        /\ lastDone.setup.after.concurrency =
               IF lastDone.setup.concurrencyEmpty THEN 1
               ELSE lastDone.setup.before.concurrency

\* an Initialize made while the library was initialized put back the limit
\* that VipsCacheSetMax had changed
C18_Witness ==
    /\ lastDone.kind = "Initialize" /\ lastDone.prevFlag
    /\ lastDone.setup.before.max = 100
    /\ lastDone.setup.after.max = 500

(***************************************************************************)
(* Use of a handle after its release (Spec).                               *)
(***************************************************************************)
\* C20: no operation hands a native image handle to a native entry point
\* after it has released that handle: every native call on a handle, other
\* than the release itself, finds the handle unreleased.
C20_NoUseAfterRelease ==
    \A i \in DOMAIN calls :
        (calls[i].h # 0 /\ calls[i].f # "g_object_unref") => calls[i].live

(***************************************************************************)
(* Operations running beside Initialize and Shutdown (SpecLife).           *)
(***************************************************************************)
\* the goroutines inside the native entry point of an operation
InOperation == {g \in Goroutines : pc[g] = "O_ret"}

\* C21 as claimed: no native decode, transform or save entry point is
\* invoked while the initialized flag is false.
C21_NoEntryWhileStopped ==
    \A g \in InOperation : cur[g].flag

\* C21 (amended): until a Shutdown has invoked vips_shutdown, no native
\* decode, transform or save entry point is invoked while the initialized
\* flag is false; after that the operations, which neither test the flag nor
\* take the mutex, are not held back.
C21_NoEntryBeforeShutdown ==
    \A g \in InOperation : ~cur[g].flag => stopped

\* an operation is inside its native entry point, entered with the flag
\* set, while another goroutine is inside Initialize and no vips_shutdown
\* has been made
C21_Witness ==
    /\ ~stopped
    /\ \E g \in InOperation, h \in Goroutines :
           cur[g].flag /\ pc[h] \in {"I_initret", "I_maxmem", "I_flag"}

(***************************************************************************)
(* A failing vips_init (SpecLifeFair).                                     *)
(***************************************************************************)
\* the goroutines whose Initialize panicked
Panicked == {g \in Goroutines : pc[g] \in {"panicked", "crashed"}}
\* g waits for the mutex
Waiting(g) == pc[g] \in {"I_lock", "S_lock"}
\* g's call is over: it returned or it panicked
Over(g) == pc[g] \in {"idle", "panicked", "crashed"}

\* C22: when vips_init returns non-zero, Initialize panics with the mutex
\* released, the OS thread unlocked and the flag as it was when the call took
\* the mutex; every call of Initialize or Shutdown that waits for the mutex,
\* after a panic too, gets it and comes to its end.
C22_PanicReleasesMutex ==
    /\ [](\A g \in Panicked : m # g /\ g \notin osThread)
    /\ [](lastDone.kind = "panic" =>
             /\ lastDone.flagAfter = lastDone.tested
             /\ lastDone.natives = <<"vips_init">>)
    /\ \A g \in Goroutines : Waiting(g) ~> Over(g)

\* a goroutine's Initialize has panicked, and after it another goroutine's
\* Shutdown took the mutex and is about to return
C22_Witness ==
    \E g \in Panicked, h \in Goroutines :
        pc[g] = "panicked" /\ pc[h] = "S_unlock" /\ m = h

====
